---- MODULE Spec2Model ----
(***************************************************************************)
(* SyncSpace realtime layer: document sync (unnamed/part_005, the room     *)
(* page), reconnection lifecycle (same file), cursor throttle              *)
(* (hooks/useRealtimeCursors.tsx) and the audio mesh                       *)
(* (components/AudioRoom.tsx).  Each component has its own specification   *)
(* over its own variables; the other components' variables stay idle.      *)
(***************************************************************************)
EXTENDS Integers, Sequences, FiniteSets, Bags, TLC

VARIABLES
    \* ---- document sync (part_005 117-169, 234-302) ----
    store,      \* store[p][id]: payload of record id in p's tldraw store, Absent if none
    db,         \* whiteboard_shapes: db[id] = [val, by], val = Absent when no row
    writes,     \* writes[p]: upsert/delete requests of p awaiting the database (FIFO)
    resp,       \* resp[p]: answered requests whose continuation (the broadcast) has not run
    notifQ,     \* notifQ[p]: postgres_changes notifications on their way to p
    bcastQ,     \* bcastQ[p]: 'update'/'delete' broadcasts on their way to p
    env,        \* ghost: edits made, duplicates injected, whether a write failed
    last,       \* ghost: the remote event most recently handled, where, and a tick
    rep,        \* ghost: that event repeated the one handled just before it
    \* ---- initial load (part_005 37-89) ----
    snap,       \* snap[p]: p's loadRoomData: not begun, the fetched rows on their way, or done
    \* ---- reconnection lifecycle (part_005 20-23, 92-228) ----
    connectionStatus,   \* useState: "connecting" | "connected" | "disconnected"
    retryTrigger,       \* useState: bumped by handleManualReconnect; names the effect instance
    mounted,            \* the room page is mounted (the subscription effect is live)
    retryCount,         \* retryCount[i]: the closure variable of effect instance i
    timers,             \* bag of pending setTimeout(setupSubscription, ...) calls
    chans,              \* chans[c]: channel c's owning effect instance and transport state
    channelRef,         \* channelRef.current: a channel id, or NoChannel
    consec,             \* ghost: consec[i]: failures in a row seen by instance i's callbacks
    \* ---- cursor throttle (hooks/useRealtimeCursors.tsx 9-38, 74-102) ----
    now,            \* Date.now(), in ms
    lastCall,       \* lastCall.current
    timeout,        \* timeout.current: NoTimeout, or the trailing call last scheduled
    pending,        \* the trailing calls setTimeout holds: scheduled, not run, not cleared
    cursorPayload,  \* cursorPayload.current: position last dispatched, NoSample if none
    samples,        \* ghost: the times of the mousemove events so far
    dispatches,     \* ghost: the throttled callback's runs so far: when, and with which sample
    \* ---- audio mesh (components/AudioRoom.tsx 37-42, 48-232) ----
    up,             \* up[u]: u's audio effect has run initAudio and not yet its cleanup
    phase,          \* phase[u]: u's audio channel: none, subscribing, subscribed, tracked, ready
    present,        \* the users tracked on the audio channel, oldest first
    presQ,          \* presQ[u]: presence events on their way to u
    sigQ,           \* sigQ[u]: 'signal' broadcasts on their way to u
    peersRef,       \* peersRef[u]: u's list of PeerData (peerId, the peer's role and state)
    peers,          \* peers[u]: the peer ids of the list last given to setPeers
    remoteStreams,  \* remoteStreams[u]: the peer ids with a remote stream
    menv,           \* ghost: starts, restarts, duplicates, and who skipped a join as known
    userStream,     \* userStream[u]: u's microphone tracks (none, live, stopped) and their enabled flag
    isMuted,        \* isMuted[u]: the muted flag the button shows
    \* ---- presence count (part_005 20, 170-187) ----
    connectedUsers, \* useState: the count shown as "N online"
    roomKeys,       \* the presence keys tracked on the room channel
    roomPhase,      \* this client's room channel: "none", "subscribed" or "tracked"
    roomQ,          \* presence events of the room channel on their way to this client
    tally,          \* ghost: joins and leaves handled since the last sync, and what that sync did
    \* ---- cursors (hooks/useRealtimeCursors.tsx 67-157) ----
    cursors,        \* cursors[t][u]: the position shown by tab t for user u, NoCursor if none
    curPhase,       \* curPhase[t]: t's cursor channel: none, subscribing, subscribed, tracked, ready
    payloadRef,     \* payloadRef[t]: cursorPayload.current of tab t, NoCursor if null
    curPresent,     \* the tabs tracked on the cursor channel
    curPresQ,       \* curPresQ[t]: presence events on their way to t
    curBcastQ,      \* curBcastQ[t]: cursor broadcasts on their way to t
    userId,         \* userId[t]: the user signed in on tab t
    cenv,           \* ghost: moves and starts so far, whose leave each tab handled last, own echoes
    \* ---- chat lists (components/AudioRoom.tsx 331-389, components/Chat.tsx 29-75) ----
    aiMessages,     \* useState: the AI chat list, as the ids of its entries
    teamMessages,   \* useState: the team chat list, as the ids of its entries
    chatDb,         \* chatDb[k]: the ids of the rows of table k, by created_at
    chatChan,       \* chatChan[k]: the list's channel on table k: "joining" or "joined"
    chatQ,          \* chatQ[k]: INSERT notifications on their way to the list
    chatFetch,      \* chatFetch[k]: the initial select: asked, its rows on their way, or done
    chatEnv         \* ghost: duplicates injected

syncVars == <<store, db, writes, resp, notifQ, bcastQ, env>>
mergeVars == <<last, rep>>
loadVars == <<snap>>
connVars == <<connectionStatus, retryTrigger, mounted, retryCount, timers, chans, channelRef, consec>>
thrVars == <<now, lastCall, timeout, pending, cursorPayload, samples, dispatches>>
micVars == <<userStream, isMuted>>
meshVars == <<up, phase, present, presQ, sigQ, peersRef, peers, remoteStreams, menv, micVars>>
presVars == <<connectedUsers, roomKeys, roomPhase, roomQ, tally>>
curVars == <<cursors, curPhase, payloadRef, curPresent, curPresQ, curBcastQ, userId, cenv>>
chatVars == <<aiMessages, teamMessages, chatDb, chatChan, chatQ, chatFetch, chatEnv>>

vars == <<syncVars, mergeVars, loadVars, connVars, thrVars, meshVars, presVars, curVars, chatVars>>

\* what each component leaves alone
notLoad == <<connVars, thrVars, meshVars, presVars, curVars, chatVars>>
notSync == <<loadVars, notLoad>>
notConn == <<syncVars, mergeVars, loadVars, thrVars, meshVars, presVars, curVars, chatVars>>
notThr == <<syncVars, mergeVars, loadVars, connVars, meshVars, presVars, curVars, chatVars>>
notMesh == <<syncVars, mergeVars, loadVars, connVars, thrVars, presVars, curVars, chatVars>>
notPres == <<syncVars, mergeVars, loadVars, connVars, thrVars, meshVars, curVars, chatVars>>
notCur == <<syncVars, mergeVars, loadVars, connVars, thrVars, meshVars, presVars, chatVars>>
notChat == <<syncVars, mergeVars, loadVars, connVars, thrVars, meshVars, presVars, curVars>>

\* ------------------------------------------------------------------ bounds
MaxEdits == 2
MaxDup == 1
MaxReconnects == 1
MaxChannels == 2
MaxTimers == 2
MaxTicks == 11
MaxRestarts == 0
MaxPresence == 4
MaxChurn == 3
MaxMoves == 2
MaxStarts == 2
MaxToggles == 2
MaxCommits == 1
MaxMessages == 2

\* ------------------------------------------------------------------ constants and idle states
Peers == {"A", "B"}
Ids == {"shape:1"}
Absent == 0
Vals == {1, 2}
NoEv == [op |-> "none", id |-> "-", val |-> Absent, by |-> "-"]


\* the room as loadRoomData finds it: every store holds the rows of the table
SyncLoaded(v) ==
    /\ store = [p \in Peers |-> [i \in Ids |-> v]]
    /\ db = [i \in Ids |-> [val |-> v, by |-> "-"]]

SyncQueuesIdle ==
    /\ writes = [p \in Peers |-> <<>>]
    /\ resp = [p \in Peers |-> <<>>]
    /\ notifQ = [p \in Peers |-> <<>>]
    /\ bcastQ = [p \in Peers |-> <<>>]
    /\ env = [edits |-> 0, dups |-> 0, failed |-> FALSE]

\* loadRoomData has finished: nothing fetched is on its way
Loaded == [st |-> "done", rows |-> <<>>, seen |-> {}]

LoadIdle == snap = [p \in Peers |-> Loaded]

MergeIdle ==
    /\ last = [ev |-> NoEv, tick |-> 0]
    /\ rep = FALSE

maxRetries == 3
BaseDelay == 2000
NoChannel == 0
Instances == 0..MaxReconnects
Failures == {"CHANNEL_ERROR", "TIMED_OUT"}

ConnIdle ==
    /\ connectionStatus = "connecting"
    /\ retryTrigger = 0
    /\ mounted = FALSE
    /\ retryCount = [i \in Instances |-> 0]
    /\ timers = EmptyBag
    /\ chans = <<>>
    /\ channelRef = NoChannel
    /\ consec = [i \in Instances |-> 0]

throttleMs == 50
TickMs == 10
StartTimes == {1000, 1005}
NoTimeout == [due |-> -1, args |-> -1]
NoSample == -1

ThrottleIdle(t0) ==
    /\ now = t0
    /\ lastCall = 0
    /\ timeout = NoTimeout
    /\ pending = {}
    /\ cursorPayload = NoSample
    /\ samples = <<>>
    /\ dispatches = <<>>

MeshPeers == {"A", "B"}

\* userStream.current = null
NoStream == [tracks |-> "none", enabled |-> FALSE]

MeshIdle ==
    /\ up = [u \in MeshPeers |-> FALSE]
    /\ phase = [u \in MeshPeers |-> "none"]
    /\ present = <<>>
    /\ presQ = [u \in MeshPeers |-> <<>>]
    /\ sigQ = [u \in MeshPeers |-> <<>>]
    /\ peersRef = [u \in MeshPeers |-> <<>>]
    /\ peers = [u \in MeshPeers |-> <<>>]
    /\ remoteStreams = [u \in MeshPeers |-> {}]
    /\ menv = [started |-> {}, restarts |-> 0, dups |-> 0, skipped |-> {}, strays |-> {}, torn |-> {},
              toggles |-> 0, warned |-> {},
              teardown |-> [u \in MeshPeers |-> <<>>]]
    /\ userStream = [u \in MeshPeers |-> NoStream]
    /\ isMuted = [u \in MeshPeers |-> TRUE]

Me == "me"
PresKeys == {Me, "p", "q"}

PresIdle ==
    /\ connectedUsers = 0
    /\ roomKeys = {}
    /\ roomPhase = "none"
    /\ roomQ = <<>>
    /\ tally = [joins |-> 0, leaves |-> 0, base |-> 0, events |-> 0, drift |-> FALSE, seen |-> {}]

Tabs == {"t1", "t2"}
CursorUsers == {"A", "B"}
NoCursor == 0
CursorPos == {1, 2}

\* tab t1 is signed in as A; t2 as another user or as A as well
CursorIdle(second) ==
    /\ userId = [t \in Tabs |-> IF t = "t1" THEN "A" ELSE second]
    /\ cursors = [t \in Tabs |-> [u \in CursorUsers |-> NoCursor]]
    /\ curPhase = [t \in Tabs |-> "none"]
    /\ payloadRef = [t \in Tabs |-> NoCursor]
    /\ curPresent = {}
    /\ curPresQ = [t \in Tabs |-> <<>>]
    /\ curBcastQ = [t \in Tabs |-> <<>>]
    /\ cenv = [moves |-> 0, starts |-> 0, gone |-> [t \in Tabs |-> {}], echoed |-> {}]

\* the state in which the components a specification leaves alone stay
\* the two tables of chat messages, and the lists that show them
ChatKinds == {"ai", "team"}

ChatIdle ==
    /\ aiMessages = <<>> /\ teamMessages = <<>>
    /\ chatDb = [k \in ChatKinds |-> <<>>]
    /\ chatChan = [k \in ChatKinds |-> "joining"]
    /\ chatQ = [k \in ChatKinds |-> <<>>]
    /\ chatFetch = [k \in ChatKinds |-> [st |-> "asked", rows |-> <<>>]]
    /\ chatEnv = [dups |-> 0]

OthersIdle(spec) ==
    /\ spec \in {"sync", "merge", "load"} \/ (SyncLoaded(Absent) /\ SyncQueuesIdle)
    /\ spec \in {"sync", "merge", "load"} \/ MergeIdle
    /\ spec = "load" \/ LoadIdle
    /\ spec = "conn" \/ ConnIdle
    /\ spec = "throttle" \/ ThrottleIdle(0)
    /\ spec = "mesh" \/ MeshIdle
    /\ spec \in {"count", "presence"} \/ PresIdle
    /\ spec = "cursors" \/ CursorIdle("B")
    /\ spec = "chat" \/ ChatIdle

\* the sequence q without its i-th element
RemoveAt(q, i) == [j \in 1..(Len(q) - 1) |-> IF j < i THEN q[j] ELSE q[j + 1]]

\* ------------------------------------------------------------------ document sync
\* record.typeName of the record with this id
TypeName(id) ==
    IF id = "camera:1" THEN "camera"
    ELSE IF id = "instance:1" THEN "instance"
    ELSE IF id = "pointer:1" THEN "pointer"
    ELSE "shape"

\* the filter dropped
IsEphemeralNever(id) == FALSE

\* the filter at the head of each forEach callback of handleChange
IsEphemeral(id) == TypeName(id) \in {"instance", "camera", "pointer"}

\* store.put([rec]) keyed by rec.id: the payload as a delta on the old one
StorePutAsDelta(s, id, val) ==
    [s EXCEPT ![id] = IF @ + val \in Vals THEN @ + val ELSE val]

\* a put that only replaces a record the store holds
StorePutKnown(s, id, val) == IF s[id] = Absent THEN s ELSE [s EXCEPT ![id] = val]

\* store.put([rec]): the record replaces whatever the store holds under rec.id
StorePut(s, id, val) == [s EXCEPT ![id] = val]

\* store.remove([id]) clearing the whole store
StoreRemoveAll(s, id) == [i \in DOMAIN s |-> Absent]

\* store.remove([id]): no-op when id is absent
StoreRemove(s, id) == [s EXCEPT ![id] = Absent]

\* "put" for INSERT / UPDATE / 'update', "del" for DELETE / 'delete'
Kind(e) == IF e.op \in {"INSERT", "UPDATE", "update"} THEN "put"
           ELSE IF e.op \in {"DELETE", "delete"} THEN "del" ELSE "none"

\* postgres_changes callback: INSERT/UPDATE skip own rows, DELETE has no check
OnPostgresChange(p, e, s) ==
    IF e.op \in {"INSERT", "UPDATE"}
    THEN IF e.by = p THEN s ELSE StorePut(s, e.id, e.val)
    ELSE IF e.op = "DELETE" THEN StoreRemove(s, e.id)
    ELSE s

\* broadcast 'update' callback
OnBroadcastUpdate(p, e, s) ==
    IF e.by = p THEN s ELSE StorePut(s, e.id, e.val)

\* broadcast 'delete' callback
OnBroadcastDelete(p, e, s) ==
    IF e.by = p THEN s ELSE StoreRemove(s, e.id)

OnBroadcast(p, e, s) ==
    IF e.op = "update" THEN OnBroadcastUpdate(p, e, s)
    ELSE IF e.op = "delete" THEN OnBroadcastDelete(p, e, s)
    ELSE s

\* a listener that hears every change
ListenerFiresAlways(source) == TRUE

\* store.listen(handleChange, { source: 'user', scope: 'document' })
ListenerFires(source) == source = "user"

\* the requests of p after a change of record id from old to new made with
\* this source: handleChange queues one if the listener hears the change
Heard(p, source, id, old, new) ==
    IF ListenerFires(source) /\ old # new /\ ~IsEphemeral(id)
    THEN [writes EXCEPT ![p] = Append(@, [op |-> IF new = Absent THEN "delete" ELSE "upsert",
                                          id |-> id, val |-> new])]
    ELSE writes

\* an event compared without the path it came by
Content(e) == [k |-> Kind(e), id |-> e.id, val |-> e.val, by |-> e.by]

\* a user edit of p: the store changes, then handleChange runs up to its await
\* (changes.added when the id is new, changes.updated otherwise)
LocalPut(p, id, v) ==
    /\ env.edits < MaxEdits
    /\ store[p][id] # v
    /\ store' = [store EXCEPT ![p] = StorePut(@, id, v)]
    /\ writes' = IF IsEphemeral(id) THEN writes
                 ELSE [writes EXCEPT ![p] = Append(@, [op |-> "upsert", id |-> id, val |-> v])]
    /\ env' = [env EXCEPT !.edits = @ + 1]
    /\ last' = [last EXCEPT !.ev = NoEv]
    /\ rep' = FALSE
    /\ UNCHANGED <<db, resp, notifQ, bcastQ>>

\* a user removal of p (changes.removed)
LocalRemove(p, id) ==
    /\ env.edits < MaxEdits
    /\ store[p][id] # Absent
    /\ store' = [store EXCEPT ![p] = StoreRemove(@, id)]
    /\ writes' = IF IsEphemeral(id) THEN writes
                 ELSE [writes EXCEPT ![p] = Append(@, [op |-> "delete", id |-> id, val |-> Absent])]
    /\ env' = [env EXCEPT !.edits = @ + 1]
    /\ last' = [last EXCEPT !.ev = NoEv]
    /\ rep' = FALSE
    /\ UNCHANGED <<db, resp, notifQ, bcastQ>>

\* the notification the table emits for a committed request of p
ChangeOf(p, w) ==
    IF w.op = "upsert"
    THEN [op |-> IF db[w.id].val = Absent THEN "INSERT" ELSE "UPDATE",
          id |-> w.id, val |-> w.val, by |-> p]
    ELSE [op |-> "DELETE", id |-> w.id, val |-> Absent, by |-> p]

\* the database commits p's oldest request and notifies every subscriber
DbCommit(p) ==
    /\ writes[p] # <<>>
    /\ LET w == Head(writes[p])
           hit == w.op = "upsert" \/ db[w.id].val # Absent
       IN /\ db' = [db EXCEPT ![w.id] = IF w.op = "upsert" THEN [val |-> w.val, by |-> p]
                                        ELSE [val |-> Absent, by |-> "-"]]
          /\ notifQ' = IF hit THEN [q \in Peers |-> Append(notifQ[q], ChangeOf(p, w))]
                       ELSE notifQ
          /\ resp' = [resp EXCEPT ![p] = Append(@, w)]
    /\ writes' = [writes EXCEPT ![p] = Tail(@)]
    /\ UNCHANGED <<store, bcastQ, env, mergeVars>>

\* a rejection after which the request is sent again
DbRejectRetries(p) ==
    /\ writes[p] # <<>>
    /\ resp' = [resp EXCEPT ![p] = Append(@, Head(writes[p]))]
    /\ writes' = [writes EXCEPT ![p] = Append(Tail(@), Head(@))]
    /\ env' = [env EXCEPT !.failed = TRUE]
    /\ UNCHANGED <<store, db, notifQ, bcastQ, mergeVars>>

\* the database rejects p's oldest request: { error } comes back, nothing is stored
DbReject(p) ==
    /\ writes[p] # <<>>
    /\ resp' = [resp EXCEPT ![p] = Append(@, Head(writes[p]))]
    /\ writes' = [writes EXCEPT ![p] = Tail(@)]
    /\ env' = [env EXCEPT !.failed = TRUE]
    /\ UNCHANGED <<store, db, notifQ, bcastQ, mergeVars>>

\* the broadcast handleChange sends after its await, whatever the answer was
BroadcastOf(p, w) ==
    IF w.op = "upsert" THEN [op |-> "update", id |-> w.id, val |-> w.val, by |-> p]
    ELSE [op |-> "delete", id |-> w.id, val |-> Absent, by |-> p]

\* handleChange resumes after the await: channelRef.current.send(...); the channel
\* is created without a broadcast config, so the sender gets no copy of its own
WriteDone(p) ==
    /\ resp[p] # <<>>
    /\ bcastQ' = [q \in Peers |-> IF q = p THEN bcastQ[q]
                                   ELSE Append(bcastQ[q], BroadcastOf(p, Head(resp[p])))]
    /\ resp' = [resp EXCEPT ![p] = Tail(@)]
    /\ UNCHANGED <<store, db, writes, notifQ, env, mergeVars>>

\* p's postgres_changes callback runs on the oldest notification
DeliverNotif(p) ==
    /\ notifQ[p] # <<>>
    /\ LET e == Head(notifQ[p])
       IN /\ store' = [store EXCEPT ![p] = OnPostgresChange(p, e, @)]
          /\ writes' = Heard(p, "remote", e.id, store[p][e.id], store'[p][e.id])
    /\ notifQ' = [notifQ EXCEPT ![p] = Tail(@)]
    /\ UNCHANGED <<db, resp, bcastQ, env, mergeVars>>

\* broadcasts of one sender arrive in order, those of different senders in any order
Deliverable(q, i) == \A j \in 1..(i - 1) : q[j].by # q[i].by

\* p's broadcast callback runs on a deliverable broadcast
DeliverBroadcast(p) ==
    \E i \in DOMAIN bcastQ[p] :
        /\ Deliverable(bcastQ[p], i)
        /\ store' = [store EXCEPT ![p] = OnBroadcast(p, bcastQ[p][i], @)]
        /\ writes' = Heard(p, "remote", bcastQ[p][i].id,
                           store[p][bcastQ[p][i].id], store'[p][bcastQ[p][i].id])
        /\ bcastQ' = [bcastQ EXCEPT ![p] = RemoveAt(@, i)]
        /\ UNCHANGED <<db, resp, notifQ, env, mergeVars>>

\* at-least-once delivery: the transport repeats the oldest message of a queue
Duplicate(p) ==
    /\ env.dups < MaxDup
    /\ \/ /\ notifQ[p] # <<>>
          /\ notifQ' = [notifQ EXCEPT ![p] = <<Head(@)>> \o @]
          /\ UNCHANGED bcastQ
       \/ /\ bcastQ[p] # <<>>
          /\ bcastQ' = [bcastQ EXCEPT ![p] = <<Head(@)>> \o @]
          /\ UNCHANGED notifQ
    /\ env' = [env EXCEPT !.dups = @ + 1]
    /\ UNCHANGED <<store, db, writes, resp, mergeVars>>

InitSync ==
    /\ \E v \in {Absent, 1} : SyncLoaded(v)
    /\ SyncQueuesIdle /\ MergeIdle /\ OthersIdle("sync")

NextSync ==
    \/ \E p \in Peers, id \in Ids, v \in Vals : LocalPut(p, id, v) /\ UNCHANGED notSync
    \/ \E p \in Peers, id \in Ids : LocalRemove(p, id) /\ UNCHANGED notSync
    \/ \E p \in Peers : DbCommit(p) /\ UNCHANGED notSync
    \/ \E p \in Peers : DbReject(p) /\ UNCHANGED notSync
    \/ \E p \in Peers : WriteDone(p) /\ UNCHANGED notSync
    \/ \E p \in Peers : DeliverNotif(p) /\ UNCHANGED notSync
    \/ \E p \in Peers : DeliverBroadcast(p) /\ UNCHANGED notSync
    \/ \E p \in Peers : Duplicate(p) /\ UNCHANGED notSync

SpecSync == InitSync /\ [][NextSync]_vars

\* ---- the room with every notification and broadcast delivered once
NextOnce ==
    \/ \E p \in Peers, id \in Ids, v \in Vals : LocalPut(p, id, v) /\ UNCHANGED notSync
    \/ \E p \in Peers, id \in Ids : LocalRemove(p, id) /\ UNCHANGED notSync
    \/ \E p \in Peers : DbCommit(p) /\ UNCHANGED notSync
    \/ \E p \in Peers : DbReject(p) /\ UNCHANGED notSync
    \/ \E p \in Peers : WriteDone(p) /\ UNCHANGED notSync
    \/ \E p \in Peers : DeliverNotif(p) /\ UNCHANGED notSync
    \/ \E p \in Peers : DeliverBroadcast(p) /\ UNCHANGED notSync

SpecOnce == InitSync /\ [][NextOnce]_vars

\* ---- a page that loads the room while the room is being edited
Loader == "A"

\* the select on whiteboard_shapes is answered: the rows of the table as they
\* are now (the ghost starts noting the ids whose remote events p handles)
FetchShapes(p) ==
    /\ snap[p].st = "none"
    /\ snap' = [snap EXCEPT ![p] = [st |-> "fetched", rows |-> [i \in Ids |-> db[i].val],
                                    seen |-> {}]]
    /\ UNCHANGED <<syncVars, mergeVars>>

\* the requests handleChange queues for one change event that takes the
\* records ids from old to new, if the listener hears it
RECURSIVE HeardRows(_, _, _, _)
HeardRows(source, ids, old, new) ==
    IF ids = {} THEN <<>>
    ELSE LET i == CHOOSE x \in ids : TRUE
             rest == HeardRows(source, ids \ {i}, old, new)
         IN  IF ListenerFires(source) /\ old[i] # new[i] /\ ~IsEphemeral(i)
             THEN <<[op |-> "upsert", id |-> i, val |-> new[i]]>> \o rest
             ELSE rest

\* store.put(shapes) for the rows fetched; a record without a row is left alone
PutRows(s, rows) == [i \in DOMAIN s |-> IF rows[i] = Absent THEN s[i] ELSE rows[i]]

\* loadRoomData resumes: store.mergeRemoteChanges(() => store.put(shapes))
ApplySnapshot(p) ==
    /\ snap[p].st = "fetched"
    /\ store' = [store EXCEPT ![p] = PutRows(@, snap[p].rows)]
    /\ writes' = [writes EXCEPT ![p] = @ \o HeardRows("remote", Ids, store[p], store'[p])]
    /\ snap' = [snap EXCEPT ![p] = [@ EXCEPT !.st = "done"]]
    /\ UNCHANGED <<db, resp, notifQ, bcastQ, env, mergeVars>>

\* ghost: the id of the remote event p is about to handle, while its fetch is out
Noted(p, id) ==
    IF snap[p].st = "fetched" THEN [snap EXCEPT ![p].seen = @ \cup {id}] ELSE snap

\* the editor is shown once loading is over
Editing(p) == snap[p].st = "done"

InitLoad ==
    /\ \E v \in {Absent, 1} :
           /\ db = [i \in Ids |-> [val |-> v, by |-> "-"]]
           /\ store = [p \in Peers |-> [i \in Ids |-> IF p = Loader THEN Absent ELSE v]]
    /\ snap = [p \in Peers |-> IF p = Loader THEN [Loaded EXCEPT !.st = "none"] ELSE Loaded]
    /\ SyncQueuesIdle /\ MergeIdle /\ OthersIdle("load")

NextLoad ==
    \/ \E p \in Peers : FetchShapes(p) /\ UNCHANGED notLoad
    \/ \E p \in Peers : ApplySnapshot(p) /\ UNCHANGED notLoad
    \/ \E p \in Peers, id \in Ids, v \in Vals :
           Editing(p) /\ LocalPut(p, id, v) /\ UNCHANGED <<snap, notLoad>>
    \/ \E p \in Peers, id \in Ids :
           Editing(p) /\ LocalRemove(p, id) /\ UNCHANGED <<snap, notLoad>>
    \/ \E p \in Peers : DbCommit(p) /\ UNCHANGED <<snap, notLoad>>
    \/ \E p \in Peers : WriteDone(p) /\ UNCHANGED <<snap, notLoad>>
    \/ \E p \in Peers :
           DeliverNotif(p) /\ snap' = Noted(p, Head(notifQ[p]).id) /\ UNCHANGED notLoad
    \/ \E p \in Peers : \E i \in DOMAIN bcastQ[p] :
           /\ Deliverable(bcastQ[p], i) /\ bcastQ' = [bcastQ EXCEPT ![p] = RemoveAt(@, i)]
           /\ DeliverBroadcast(p) /\ snap' = Noted(p, bcastQ[p][i].id) /\ UNCHANGED notLoad

SpecLoad == InitLoad /\ [][NextLoad]_vars

\* ---- the same handlers with session records among the edited ones
EditIds == {"shape:1", "camera:1", "instance:1", "pointer:1"}

InitLocal ==
    /\ store = [p \in Peers |-> [i \in EditIds |-> Absent]]
    /\ db = [i \in EditIds |-> [val |-> Absent, by |-> "-"]]
    /\ SyncQueuesIdle /\ MergeIdle /\ OthersIdle("sync")

NextLocal ==
    \/ \E p \in Peers, id \in EditIds, v \in Vals : LocalPut(p, id, v) /\ UNCHANGED notSync
    \/ \E p \in Peers, id \in EditIds : LocalRemove(p, id) /\ UNCHANGED notSync
    \/ \E p \in Peers : DbCommit(p) /\ UNCHANGED notSync
    \/ \E p \in Peers : DbReject(p) /\ UNCHANGED notSync
    \/ \E p \in Peers : WriteDone(p) /\ UNCHANGED notSync
    \/ \E p \in Peers : DeliverNotif(p) /\ UNCHANGED notSync
    \/ \E p \in Peers : DeliverBroadcast(p) /\ UNCHANGED notSync

SpecLocal == InitLocal /\ [][NextLocal]_vars

\* ------------------------------------------------------------------ one client's merge
\* The remote-event callbacks of one client under any stream of events the channel can
\* carry (any order, any repetition), with the user editing in between.
Self == "A"
MergeIds == {"shape:1", "shape:2"}

NotifEvents ==
    [op : {"INSERT", "UPDATE"}, id : MergeIds, val : Vals, by : Peers]
        \cup [op : {"DELETE"}, id : MergeIds, val : {Absent}, by : Peers]

BcastEvents ==
    [op : {"update"}, id : MergeIds, val : Vals, by : Peers]
        \cup [op : {"delete"}, id : MergeIds, val : {Absent}, by : Peers]

\* ghost bookkeeping of a handled remote event
Handled(e) ==
    /\ last' = [ev |-> e, tick |-> 1 - last.tick]
    /\ rep' = (last.ev # NoEv /\ Content(last.ev) = Content(e))

\* the postgres_changes callback of Self runs on e
RecvPostgresChange(e) ==
    /\ store' = [store EXCEPT ![Self] = OnPostgresChange(Self, e, @)]
    /\ Handled(e)
    /\ UNCHANGED <<db, writes, resp, notifQ, bcastQ, env>>

\* the broadcast 'update' / 'delete' callback of Self runs on e
RecvBroadcast(e) ==
    /\ store' = [store EXCEPT ![Self] = OnBroadcast(Self, e, @)]
    /\ Handled(e)
    /\ UNCHANGED <<db, writes, resp, notifQ, bcastQ, env>>

InitMerge ==
    /\ store = [p \in {Self} |-> [i \in MergeIds |-> Absent]]
    /\ db = [i \in MergeIds |-> [val |-> Absent, by |-> "-"]]
    /\ writes = [p \in {Self} |-> <<>>]
    /\ resp = [p \in {Self} |-> <<>>]
    /\ notifQ = [p \in {Self} |-> <<>>]
    /\ bcastQ = [p \in {Self} |-> <<>>]
    /\ env = [edits |-> 0, dups |-> 0, failed |-> FALSE]
    /\ MergeIdle
    /\ OthersIdle("merge")

NextMerge ==
    \/ \E e \in NotifEvents : RecvPostgresChange(e) /\ UNCHANGED notSync
    \/ \E e \in BcastEvents : RecvBroadcast(e) /\ UNCHANGED notSync
    \/ \E id \in MergeIds, v \in Vals : LocalPut(Self, id, v) /\ UNCHANGED notSync
    \/ \E id \in MergeIds : LocalRemove(Self, id) /\ UNCHANGED notSync

SpecMerge == InitMerge /\ [][NextMerge]_vars

\* ------------------------------------------------------------------ reconnection lifecycle
\* a setup or cleanup that leaves the channel as it is
RemoveChannelNever(cs, c) == cs

\* supabase.removeChannel(c): the channel leaves; its CLOSED status follows later
RemoveChannel(cs, c) ==
    IF c = NoChannel \/ cs[c].st = "leaving" THEN cs
    ELSE [cs EXCEPT ![c].st = "leaving"]

\* setupSubscription of instance i: drop channelRef.current, subscribe a new channel
ChansAfterSetup(i) == Append(RemoveChannel(chans, channelRef), [owner |-> i, st |-> "joining"])

\* clearTimeout(retryTimeout) of instance i: only the timer scheduled last is known
ClearRetryTimeout(ts, i) ==
    [x \in {y \in DOMAIN ts : ~(y.inst = i /\ y.latest)} |-> ts[x]]

\* instance i's closure is still reachable: it is the mounted effect, or one of its
\* timers is pending, or one of its channels has not been removed
LiveInst(i, ts, cs, cur, m) ==
    \/ m /\ i = cur
    \/ \E x \in DOMAIN ts : x.inst = i
    \/ \E c \in DOMAIN cs : cs[c].owner = i /\ cs[c].st # "leaving"

\* the per-instance closure variables f with those of unreachable closures forgotten
Collect(f, ts, cs, cur, m) ==
    [i \in DOMAIN f |-> IF LiveInst(i, ts, cs, cur, m) THEN f[i] ELSE 0]

\* the first run of the subscription effect, on room entry: connectionStatus keeps
\* its initial "connecting"
Mount ==
    /\ ~mounted /\ retryTrigger = 0 /\ chans = <<>>
    /\ mounted' = TRUE
    /\ chans' = ChansAfterSetup(0)
    /\ channelRef' = Len(chans')
    /\ UNCHANGED <<connectionStatus, retryTrigger, retryCount, timers, consec>>

\* retryTimeout = setTimeout(...) of instance i overwrites the handle of its earlier
\* timer, which stays pending
Superseded(ts, i) ==
    LET old(x) == IF x.inst = i THEN [x EXCEPT !.latest = FALSE] ELSE x
        n(x) == IF x \in DOMAIN ts THEN ts[x] ELSE 0
    IN [x \in {old(y) : y \in DOMAIN ts} |->
           IF x.inst = i THEN n(x) + n([x EXCEPT !.latest = TRUE]) ELSE n(x)]

\* the retry test of the status callback, off by one
MayRetryInclusive(i) == retryCount[i] <= maxRetries

\* if (retryCount < maxRetries)
MayRetry(i) == retryCount[i] < maxRetries

\* a delay that doubles with each retry
RetryDelayDoubling(k) == BaseDelay * 2^(k - 1)

\* 2000 * retryCount, with retryCount already counted up
RetryDelay(k) == BaseDelay * k

\* ghost bookkeeping of a status callback of instance i (counts up to maxRetries + 1)
Called(i, s) ==
    consec' = [consec EXCEPT ![i] = IF s = "SUBSCRIBED" THEN 0
                                    ELSE IF s \in Failures /\ @ <= maxRetries THEN @ + 1
                                    ELSE @]

\* the subscribe callback of channel c reports SUBSCRIBED (a first join, or the
\* transport's own rejoin of a failed channel)
StatusSubscribed(c) ==
    /\ chans[c].st \in {"joining", "errored"}
    /\ chans' = [chans EXCEPT ![c].st = "joined"]
    /\ connectionStatus' = "connected"
    /\ retryCount' = [retryCount EXCEPT ![chans[c].owner] = 0]
    /\ Called(chans[c].owner, "SUBSCRIBED")
    /\ UNCHANGED <<retryTrigger, mounted, timers, channelRef>>

\* the subscribe callback of channel c reports CHANNEL_ERROR or TIMED_OUT
StatusFailed(c, s) ==
    LET i == chans[c].owner IN
    /\ chans[c].st \in {"joining", "joined", "errored"}
    /\ MayRetry(i) => BagCardinality(timers) < MaxTimers
    /\ chans' = [chans EXCEPT ![c].st = "errored"]
    /\ connectionStatus' = "disconnected"
    /\ IF MayRetry(i)
       THEN /\ retryCount' = [retryCount EXCEPT ![i] = @ + 1]
            /\ timers' = Superseded(timers, i)
                            (+) SetToBag({[inst |-> i, delay |-> RetryDelay(retryCount[i] + 1),
                                           latest |-> TRUE]})
       ELSE UNCHANGED <<retryCount, timers>>
    /\ Called(i, s)
    /\ UNCHANGED <<retryTrigger, mounted, channelRef>>

\* the subscribe callback of a removed channel c reports CLOSED; the channel is gone
\* after that, and the ids of the younger channels move down by one
StatusClosed(c) ==
    /\ chans[c].st = "leaving"
    /\ chans' = RemoveAt(chans, c)
    /\ channelRef' = IF channelRef > c THEN channelRef - 1
                     ELSE IF channelRef = c THEN NoChannel ELSE channelRef
    /\ connectionStatus' = "disconnected"
    /\ Called(chans[c].owner, "CLOSED")
    /\ UNCHANGED <<retryTrigger, mounted, retryCount, timers>>

\* a retry timer fires: setupSubscription of the instance that scheduled it
RetryFires(x) ==
    /\ BagIn(x, timers)
    /\ Len(chans) < MaxChannels
    /\ timers' = timers (-) SetToBag({x})
    /\ chans' = ChansAfterSetup(x.inst)
    /\ channelRef' = Len(chans')
    /\ retryCount' = Collect(retryCount, timers', chans', retryTrigger, mounted)
    /\ consec' = Collect(consec, timers', chans', retryTrigger, mounted)
    /\ UNCHANGED <<connectionStatus, retryTrigger, mounted>>

\* handleManualReconnect: retryTrigger changes, so the effect's cleanup runs and then
\* the effect again, with a fresh closure (retryCount = 0)
ManualReconnect ==
    /\ mounted /\ retryTrigger < MaxReconnects /\ Len(chans) < MaxChannels
    /\ retryTrigger' = retryTrigger + 1
    /\ timers' = ClearRetryTimeout(timers, retryTrigger)
    /\ chans' = Append(RemoveChannel(chans, channelRef),
                       [owner |-> retryTrigger + 1, st |-> "joining"])
    /\ channelRef' = Len(chans')
    /\ retryCount' = Collect([retryCount EXCEPT ![retryTrigger + 1] = 0],
                              timers', chans', retryTrigger', mounted)
    /\ consec' = Collect(consec, timers', chans', retryTrigger', mounted)
    /\ UNCHANGED <<connectionStatus, mounted>>

\* the page unmounts (room exit): the effect's cleanup runs
RoomExit ==
    /\ mounted
    /\ mounted' = FALSE
    /\ timers' = ClearRetryTimeout(timers, retryTrigger)
    /\ chans' = RemoveChannel(chans, channelRef)
    /\ channelRef' = NoChannel
    /\ retryCount' = Collect(retryCount, timers', chans', retryTrigger, FALSE)
    /\ consec' = Collect(consec, timers', chans', retryTrigger, FALSE)
    /\ UNCHANGED <<connectionStatus, retryTrigger>>

InitConn == ConnIdle /\ OthersIdle("conn")

NextConn ==
    \/ Mount /\ UNCHANGED notConn
    \/ \E c \in DOMAIN chans : StatusSubscribed(c) /\ UNCHANGED notConn
    \/ \E c \in DOMAIN chans, s \in Failures : StatusFailed(c, s) /\ UNCHANGED notConn
    \/ \E c \in DOMAIN chans : StatusClosed(c) /\ UNCHANGED notConn
    \/ \E x \in DOMAIN timers : RetryFires(x) /\ UNCHANGED notConn
    \/ ManualReconnect /\ UNCHANGED notConn
    \/ RoomExit /\ UNCHANGED notConn

SpecConn == InitConn /\ [][NextConn]_vars

\* ---- the room page of one session (its store, its channel) beside a peer that edits
Session == "A"

\* the events of the room reach q: the session only while a channel of its is joined
Subscribed(q) == q # Session \/ \E c \in DOMAIN chans : chans[c].st = "joined"

\* another peer p edits record id and the table commits its request: the
\* change is notified to the session if it is subscribed now, and p's
\* handleChange is left to resume (v = Absent is a removal)
PeerCommits(p, id, v) ==
    LET w == [op |-> IF v = Absent THEN "delete" ELSE "upsert", id |-> id, val |-> v] IN
    /\ env.edits < MaxCommits /\ store[p][id] # v /\ writes[p] = <<>>
    /\ store' = [store EXCEPT ![p][id] = v]
    /\ db' = [db EXCEPT ![id] = [val |-> v, by |-> IF v = Absent THEN "-" ELSE p]]
    /\ notifQ' = [notifQ EXCEPT ![Session] =
                      IF Subscribed(Session) /\ (v # Absent \/ db[id].val # Absent)
                      THEN Append(@, ChangeOf(p, w)) ELSE @]
    /\ resp' = [resp EXCEPT ![p] = Append(@, w)]
    /\ env' = [env EXCEPT !.edits = @ + 1]
    /\ UNCHANGED <<writes, bcastQ, mergeVars>>

\* handleChange resumes after the await; the broadcast reaches the peers joined now
WriteDoneHeard(p) ==
    /\ resp[p] # <<>>
    /\ bcastQ' = [q \in Peers |-> IF q # Session \/ q = p \/ ~Subscribed(q) THEN bcastQ[q]
                                   ELSE Append(bcastQ[q], BroadcastOf(p, Head(resp[p])))]
    /\ resp' = [resp EXCEPT ![p] = Tail(@)]
    /\ UNCHANGED <<store, db, writes, notifQ, env, mergeVars>>

\* the load-room effect has run (it does not depend on retryTrigger, so it does
\* not run again); the subscription effect has not
InitReconnect ==
    /\ \E v \in {Absent, 1} : SyncLoaded(v)
    /\ SyncQueuesIdle /\ MergeIdle /\ ConnIdle /\ OthersIdle("sync")

\* what the database, the channel and the timers do by themselves
NextDelivery ==
    \/ \E p \in Peers : WriteDoneHeard(p) /\ UNCHANGED notSync
    \/ DeliverNotif(Session) /\ UNCHANGED notSync
    \/ DeliverBroadcast(Session) /\ UNCHANGED notSync
    \/ \E c \in DOMAIN chans : StatusSubscribed(c) /\ UNCHANGED notConn
    \/ \E c \in DOMAIN chans : StatusClosed(c) /\ UNCHANGED notConn
    \/ \E x \in DOMAIN timers : RetryFires(x) /\ UNCHANGED notConn

NextReconnect ==
    \/ NextDelivery
    \/ \E p \in Peers \ {Session}, id \in Ids, v \in Vals \cup {Absent} :
           PeerCommits(p, id, v) /\ UNCHANGED notSync
    \/ Mount /\ UNCHANGED notConn
    \/ \E c \in DOMAIN chans, s \in Failures : StatusFailed(c, s) /\ UNCHANGED notConn
    \/ ManualReconnect /\ UNCHANGED notConn

SpecReconnect == InitReconnect /\ [][NextReconnect]_vars

\* the database answers, messages sent arrive, status callbacks and timers run
SpecRecover == SpecReconnect /\ WF_vars(NextDelivery)

\* ------------------------------------------------------------------ cursor throttle
\* callback(event): the payload is remembered and broadcast on the cursor channel
SendCursor(args) ==
    /\ cursorPayload' = args
    /\ dispatches' = Append(dispatches, [at |-> now, pos |-> args])

\* the trailing call scheduled for the sample that found no timer pending
TrailingFor(args, remainingTime) == [due |-> now + remainingTime, args |-> args]

\* a trailing call scheduled by every sample inside the window
TrailingAfterAny(old, args, remainingTime) == TrailingFor(args, remainingTime)

\* what a sample inside the window does to timeout.current: a pending call is kept
\* as it is, with the arguments it was scheduled with
TrailingAfter(old, args, remainingTime) ==
    IF old = NoTimeout THEN TrailingFor(args, remainingTime) ELSE old

\* a mousemove event: the function useThrottleCallback returns, called with the
\* sample taken now
MouseMove ==
    LET args == now
        remainingTime == throttleMs - (now - lastCall)
    IN /\ IF samples = <<>> THEN TRUE ELSE samples[Len(samples)] < now
       /\ samples' = Append(samples, args)
       /\ IF remainingTime <= 0
          THEN /\ timeout' = NoTimeout
               /\ pending' = pending \ {timeout}
               /\ lastCall' = now
               /\ SendCursor(args)
          ELSE /\ timeout' = TrailingAfter(timeout, args, remainingTime)
               /\ pending' = IF timeout' = timeout THEN pending ELSE pending \cup {timeout'}
               /\ UNCHANGED <<lastCall, cursorPayload, dispatches>>
       /\ UNCHANGED now

\* the setTimeout callback of a trailing call that is due
TimeoutFires ==
    \E call \in pending :
        /\ call.due <= now
        /\ pending' = pending \ {call}
        /\ lastCall' = now
        /\ timeout' = NoTimeout
        /\ SendCursor(call.args)
        /\ UNCHANGED <<now, samples>>

\* time passes; a due timer runs before the clock moves on
Tick ==
    /\ IF samples = <<>> THEN now \in StartTimes
       ELSE now + TickMs <= samples[1] + MaxTicks * TickMs
    /\ \A call \in pending : call.due > now
    /\ now' = now + TickMs
    /\ UNCHANGED <<lastCall, timeout, pending, cursorPayload, samples, dispatches>>

InitThrottle ==
    /\ \E t0 \in StartTimes : ThrottleIdle(t0)
    /\ OthersIdle("throttle")

NextThrottle ==
    \/ MouseMove /\ UNCHANGED notThr
    \/ TimeoutFires /\ UNCHANGED notThr
    \/ Tick /\ UNCHANGED notThr

SpecThrottle == InitThrottle /\ [][NextThrottle]_vars

\* ------------------------------------------------------------------ audio mesh

Signals == {"offer", "answer"}
Joined == {"subscribed", "tracked", "ready"}

\* a SimplePeer: st is new until the remote description is applied
\* ("remote"), "streamed" once its 'stream' event has run, "destroyed" after
\* destroy(); out is the signal its 'signal' event has still to hand over
NewPeer(id, init) ==
    [peerId |-> id, initiator |-> init, st |-> "new", out |-> "none"]

Destroy(e) == [e EXCEPT !.st = "destroyed", !.out = "none"]

Applied(e) == IF e.st = "new" THEN [e EXCEPT !.st = "remote"] ELSE e

\* peer.signal(s) on a peer that is not destroyed.  An answer completes an
\* initiator's offer once; an offer makes a responder answer.  An offer
\* given to an initiator whose own offer is out (both sides called) is
\* resolved by the browser: the call fails, is ignored, or is answered.
SignalOutcomes(e, s) ==
    IF e.initiator
    THEN IF s = "answer"
         THEN IF e.st = "new" /\ e.out = "none" THEN {Applied(e)} ELSE {Destroy(e)}
         ELSE {Destroy(e), e, [Applied(e) EXCEPT !.out = "answer"]}
    ELSE IF s = "offer"
         THEN {[Applied(e) EXCEPT !.out = "answer"]}
         ELSE {Destroy(e)}

\* createPeer: initiator, its offer is handed over by the 'signal' event
createPeer(userToSignal) ==
    [NewPeer(userToSignal, TRUE) EXCEPT !.out = "offer"]

\* addPeer: responder, given the incoming signal at once
addPeer(incomingSignal, callerId) ==
    SignalOutcomes(NewPeer(callerId, FALSE), incomingSignal)

Find(list, id) == {i \in DOMAIN list : list[i].peerId = id}

KnownPeerNever(list, id) == FALSE

\* peersRef.current.find(p => p.peerId === id), as a condition
KnownPeer(list, id) == Find(list, id) # {}

FirstOf(list, id) == CHOOSE i \in Find(list, id) : \A j \in Find(list, id) : i <= j

PeerIds(list) == [i \in DOMAIN list |-> list[i].peerId]

Without(ps, u) == SelectSeq(ps, LAMBDA x : x # u)

\* the clients whose audio channel is joined, other than u
Listeners(u) == {w \in DOMAIN phase \ {u} : phase[w] \in Joined}

\* the join events a newly subscribed client gets for the presence state
RECURSIVE StateJoins(_)
StateJoins(ps) ==
    IF ps = <<>> THEN <<>>
    ELSE <<[type |-> "join", user |-> Head(ps)]>> \o StateJoins(Tail(ps))

\* userStream.current = stream; track.enabled = false; setIsMuted(true)
StartMuted(u) ==
    /\ userStream' = [userStream EXCEPT ![u] = [tracks |-> "live", enabled |-> FALSE]]
    /\ isMuted' = [isMuted EXCEPT ![u] = TRUE]

\* the bookkeeping of a run of the effect: first run or a re-run
Restarted(u) ==
    IF u \in menv.started
    THEN [menv EXCEPT !.restarts = @ + 1, !.teardown[u] = <<>>, !.warned = @ \ {u}]
    ELSE [menv EXCEPT !.started = @ \cup {u}]

\* the effect body up to channel.subscribe(...): microphone granted
StartAudio(u) ==
    /\ ~up[u] /\ phase[u] = "none"
    /\ u \in menv.started => menv.restarts < MaxRestarts
    /\ menv' = Restarted(u)
    /\ up' = [up EXCEPT ![u] = TRUE]
    /\ phase' = [phase EXCEPT ![u] = "subscribing"]
    /\ StartMuted(u)
    /\ UNCHANGED <<present, presQ, sigQ, peersRef, peers, remoteStreams>>

\* ---- the same effect with the wait for the microphone as a step of its own
\* the effect runs initAudio, which awaits getUserMedia
AskMicrophone(u) ==
    /\ ~up[u] /\ phase[u] = "none"
    /\ u \in menv.started => menv.restarts < MaxRestarts
    /\ menv' = Restarted(u)
    /\ up' = [up EXCEPT ![u] = TRUE]
    /\ phase' = [phase EXCEPT ![u] = "asking"]
    /\ UNCHANGED <<micVars, present, presQ, sigQ, peersRef, peers, remoteStreams>>

\* getUserMedia resolves: initAudio runs on to channel.subscribe(...), whether
\* or not the effect has been cleaned up meanwhile
MicGranted(u) ==
    /\ phase[u] = "asking"
    /\ phase' = [phase EXCEPT ![u] = "subscribing"]
    /\ StartMuted(u)
    /\ UNCHANGED <<up, present, presQ, sigQ, peersRef, peers, remoteStreams, menv>>

\* a rejection after which initAudio goes on to the channel all the same
MicDeniedSubscribes(u) ==
    /\ phase[u] = "asking"
    /\ phase' = [phase EXCEPT ![u] = "subscribing"]
    /\ menv' = [menv EXCEPT !.warned = @ \cup {u}]
    /\ UNCHANGED <<micVars, up, present, presQ, sigQ, peersRef, peers, remoteStreams>>

\* getUserMedia rejects: the catch block logs and shows the toast
MicDenied(u) ==
    /\ phase[u] = "asking"
    /\ phase' = [phase EXCEPT ![u] = "none"]
    /\ menv' = [menv EXCEPT !.warned = @ \cup {u}]
    /\ UNCHANGED <<micVars, up, present, presQ, sigQ, peersRef, peers, remoteStreams>>

\* a toggle that only flips the flag the button shows
ToggleMuteFlagOnly(u) ==
    /\ menv.toggles < MaxToggles
    /\ menv' = [menv EXCEPT !.toggles = @ + 1]
    /\ isMuted' = [isMuted EXCEPT ![u] = ~@]
    /\ UNCHANGED <<userStream, up, phase, present, presQ, sigQ, peersRef, peers, remoteStreams>>

\* toggleMute, on a click of the button (the ghost counts the clicks)
ToggleMute(u) ==
    /\ menv.toggles < MaxToggles
    /\ menv' = [menv EXCEPT !.toggles = @ + 1]
    /\ IF userStream[u].tracks # "none"
       THEN /\ userStream' = [userStream EXCEPT ![u].enabled = ~@]
            /\ isMuted' = [isMuted EXCEPT ![u] = ~@]
       ELSE UNCHANGED micVars
    /\ UNCHANGED <<up, phase, present, presQ, sigQ, peersRef, peers, remoteStreams>>

\* the channel is joined: the presence state arrives as join events and
\* the status callback starts channel.track
AudioSubscribed(u) ==
    /\ phase[u] = "subscribing"
    /\ phase' = [phase EXCEPT ![u] = "subscribed"]
    /\ presQ' = [presQ EXCEPT ![u] = @ \o StateJoins(present)]
    /\ UNCHANGED <<micVars, up, present, sigQ, peersRef, peers, remoteStreams, menv>>

\* the server records the track and tells every joined client, u included
TrackArrives(u) ==
    /\ phase[u] = "subscribed"
    /\ phase' = [phase EXCEPT ![u] = "tracked"]
    /\ present' = Append(present, u)
    /\ presQ' = [w \in DOMAIN phase |->
                    IF phase'[w] \in Joined
                    THEN Append(presQ[w], [type |-> "join", user |-> u])
                    ELSE presQ[w]]
    /\ UNCHANGED <<micVars, up, sigQ, peersRef, peers, remoteStreams, menv>>

\* await channel.track returns: channelRef.current = channel
TrackAck(u) ==
    /\ phase[u] = "tracked"
    /\ phase' = [phase EXCEPT ![u] = "ready"]
    /\ UNCHANGED <<micVars, up, present, presQ, sigQ, peersRef, peers, remoteStreams, menv>>

\* a presence event the channel hands over and, if again, will hand over once
\* more (the presence state is sent anew after a rejoin); the ghost counts those
Counted(again) == [menv EXCEPT !.dups = IF again THEN @ + 1 ELSE @]

ForMeAlways(u, to) == TRUE

\* if (to === user.id)
ForMe(u, to) == to = u

\* the 'signal' broadcast handler (the channel's handlers outlive the effect);
\* the ghost notes who dropped a signal meant for someone else, and whether
\* they held a peer for its sender
OnSignal(u) ==
    /\ sigQ[u] # <<>> /\ phase[u] \in Joined
    /\ sigQ' = [sigQ EXCEPT ![u] = Tail(@)]
    /\ LET m == Head(sigQ[u])
           list == peersRef[u]
       IN  IF ~ForMe(u, m.to)
           THEN /\ menv' = [menv EXCEPT !.strays = @ \cup {<<u, KnownPeer(list, m.from)>>}]
                /\ UNCHANGED <<peersRef, peers>>
           ELSE IF KnownPeer(list, m.from)
           THEN LET i == FirstOf(list, m.from)
                IN  /\ \E e \in (IF list[i].st = "destroyed" THEN {list[i]}
                                 ELSE SignalOutcomes(list[i], m.signal)) :
                           peersRef' = [peersRef EXCEPT ![u][i] = e]
                    /\ UNCHANGED <<peers, menv>>
           ELSE \E e \in addPeer(m.signal, m.from) :
                    /\ peersRef' = [peersRef EXCEPT ![u] = Append(list, e)]
                    /\ peers' = [peers EXCEPT ![u] = PeerIds(peersRef'[u])]
                    /\ UNCHANGED menv
    /\ UNCHANGED <<micVars, up, phase, present, presQ, remoteStreams>>

\* the presence 'join' handler, for one new presence
OnJoin(u, user_id, again) ==
    IF user_id # u /\ ~KnownPeer(peersRef[u], user_id)
    THEN /\ peersRef' = [peersRef EXCEPT ![u] = Append(@, createPeer(user_id))]
         /\ peers' = [peers EXCEPT ![u] = PeerIds(peersRef'[u])]
         /\ menv' = Counted(again)
         /\ UNCHANGED remoteStreams
    ELSE /\ menv' = IF user_id # u
                    THEN [Counted(again) EXCEPT !.skipped = @ \cup {u}]
                    ELSE Counted(again)
         /\ UNCHANGED <<peersRef, peers, remoteStreams>>

\* a leave handler that drops every peer and every stream
OnLeaveAll(u, user_id, again) ==
    /\ peersRef' = [peersRef EXCEPT ![u] = <<>>]
    /\ peers' = [peers EXCEPT ![u] = <<>>]
    /\ remoteStreams' = [remoteStreams EXCEPT ![u] = {}]
    /\ menv' = Counted(again)

\* ghost: u handles the leave of a peer it holds an entry and a stream for,
\* while holding an entry and a stream for another one
TornAmongOthers(u, user_id) ==
    /\ KnownPeer(peersRef[u], user_id) /\ user_id \in remoteStreams[u]
    /\ \E q \in remoteStreams[u] \ {user_id} : KnownPeer(peersRef[u], q)

\* the presence 'leave' handler, for one left presence
OnLeave(u, user_id, again) ==
    /\ peersRef' = [peersRef EXCEPT ![u] = SelectSeq(@, LAMBDA p : p.peerId # user_id)]
    /\ peers' = [peers EXCEPT ![u] = PeerIds(peersRef'[u])]
    /\ remoteStreams' = [remoteStreams EXCEPT ![u] = @ \ {user_id}]
    /\ menv' = [Counted(again) EXCEPT
                   !.torn = IF TornAmongOthers(u, user_id) THEN @ \cup {u} ELSE @]

OnPresence(u, again) ==
    /\ presQ[u] # <<>> /\ phase[u] \in Joined
    /\ again => menv.dups < MaxDup
    /\ presQ' = [presQ EXCEPT ![u] = IF again THEN @ ELSE Tail(@)]
    /\ LET ev == Head(presQ[u])
       IN  IF ev.type = "join" THEN OnJoin(u, ev.user, again)
           ELSE OnLeave(u, ev.user, again)
    /\ UNCHANGED <<micVars, up, phase, present, sigQ>>

\* a peer's 'signal' event: channelRef.current?.send(...).  The broadcast
\* reaches the other joined clients; with no channel yet it is not sent.
EmitSignal(u, i) ==
    /\ i \in DOMAIN peersRef[u] /\ peersRef[u][i].out # "none"
    /\ LET e == peersRef[u][i]
           m == [signal |-> e.out, from |-> u, to |-> e.peerId]
       IN  /\ peersRef' = [peersRef EXCEPT ![u][i].out = "none"]
           /\ sigQ' = [w \in DOMAIN phase |->
                          IF phase[u] = "ready" /\ w \in Listeners(u)
                          THEN Append(sigQ[w], m) ELSE sigQ[w]]
    /\ UNCHANGED <<micVars, up, phase, present, presQ, peers, remoteStreams, menv>>

\* applying the signal throws: on the existing-peer path the catch block logs
\* it, on the new-responder path addPeer throws before the push and the
\* exception leaves the handler; either way only the message is consumed
SignalThrows(u) ==
    /\ sigQ[u] # <<>> /\ phase[u] \in Joined
    /\ ForMe(u, Head(sigQ[u]).to)
    /\ sigQ' = [sigQ EXCEPT ![u] = Tail(@)]
    /\ UNCHANGED <<micVars, up, phase, present, presQ, peersRef, peers, remoteStreams, menv>>

\* an 'error' event that takes every peer of the client down
PeerErrorAll(u, i) ==
    /\ i \in DOMAIN peersRef[u] /\ peersRef[u][i].st # "destroyed"
    /\ peersRef' = [peersRef EXCEPT ![u] = [j \in DOMAIN @ |-> Destroy(@[j])]]
    /\ UNCHANGED <<micVars, up, phase, present, presQ, sigQ, peers, remoteStreams, menv>>

\* a peer's 'error' event: the peer has destroyed itself, the handler logs
PeerError(u, i) ==
    /\ i \in DOMAIN peersRef[u] /\ peersRef[u][i].st # "destroyed"
    /\ peersRef' = [peersRef EXCEPT ![u][i] = Destroy(@)]
    /\ UNCHANGED <<micVars, up, phase, present, presQ, sigQ, peers, remoteStreams, menv>>

\* a peer's 'stream' event, once the remote description is applied
OnStream(u, i) ==
    /\ i \in DOMAIN peersRef[u] /\ peersRef[u][i].st = "remote"
    /\ peersRef' = [peersRef EXCEPT ![u][i].st = "streamed"]
    /\ remoteStreams' = [remoteStreams EXCEPT ![u] = @ \cup {peersRef[u][i].peerId}]
    /\ UNCHANGED <<micVars, up, phase, present, presQ, sigQ, peers, menv>>


\* userStream.current?.getTracks().forEach(track => track.stop())
StopTracks(stream) ==
    IF stream.tracks = "none" THEN stream ELSE [stream EXCEPT !.tracks = "stopped"]

\* the statements of the effect cleanup, in the order they run: the level
\* meter's animation frame and audio context, the microphone tracks, the
\* peers, and the channel if channelRef.current is set
CleanupSteps(hasChannel) ==
    <<"listeners", "tracks", "peers">> \o (IF hasChannel THEN <<"channel">> ELSE <<>>)

\* the effect cleanup: every peer destroyed (the list is kept); the channel
\* is removed only if channelRef.current is set, and then its user leaves;
\* the ghost keeps the steps of this client's last cleanup
CleanupAudio(u) ==
    /\ up[u]
    /\ up' = [up EXCEPT ![u] = FALSE]
    /\ peersRef' = [peersRef EXCEPT ![u] = [i \in DOMAIN @ |-> Destroy(@[i])]]
    /\ IF phase[u] = "ready"
       THEN /\ phase' = [phase EXCEPT ![u] = "none"]
            /\ present' = Without(present, u)
            /\ presQ' = [w \in DOMAIN phase |->
                            IF w = u THEN <<>>
                            ELSE IF phase[w] \in Joined
                            THEN Append(presQ[w], [type |-> "leave", user |-> u])
                            ELSE presQ[w]]
            /\ sigQ' = [sigQ EXCEPT ![u] = <<>>]
       ELSE UNCHANGED <<phase, present, presQ, sigQ>>
    /\ menv' = [menv EXCEPT !.skipped = @ \ {u}, !.strays = {x \in @ : x[1] # u}, !.torn = @ \ {u},
                            !.teardown[u] = CleanupSteps(phase[u] = "ready")]
    /\ userStream' = [userStream EXCEPT ![u] = StopTracks(@)]
    /\ UNCHANGED <<peers, remoteStreams, isMuted>>

InitMesh == MeshIdle /\ OthersIdle("mesh")

NextMesh ==
    \/ \E u \in MeshPeers : StartAudio(u) /\ UNCHANGED notMesh
    \/ \E u \in MeshPeers : AudioSubscribed(u) /\ UNCHANGED notMesh
    \/ \E u \in MeshPeers : TrackArrives(u) /\ UNCHANGED notMesh
    \/ \E u \in MeshPeers : TrackAck(u) /\ UNCHANGED notMesh
    \/ \E u \in MeshPeers : OnSignal(u) /\ UNCHANGED notMesh
    \/ \E u \in MeshPeers, again \in BOOLEAN : OnPresence(u, again) /\ UNCHANGED notMesh
    \/ \E u \in MeshPeers : \E i \in DOMAIN peersRef[u] : EmitSignal(u, i) /\ UNCHANGED notMesh
    \/ \E u \in MeshPeers : \E i \in DOMAIN peersRef[u] : OnStream(u, i) /\ UNCHANGED notMesh
    \/ \E u \in MeshPeers : CleanupAudio(u) /\ UNCHANGED notMesh

SpecMesh == InitMesh /\ [][NextMesh]_vars

\* ---- the two clients with a third participant on the channel, whose join
\* they see and to whom each of them then addresses an offer the other hears
Remote == "C"

\* the third participant's track reaches the server
RemoteJoins(r) ==
    /\ \A i \in DOMAIN present : present[i] # r
    /\ r \notin menv.started
    /\ menv' = [menv EXCEPT !.started = @ \cup {r}]
    /\ present' = Append(present, r)
    /\ presQ' = [w \in DOMAIN phase |->
                    IF phase[w] \in Joined
                    THEN Append(presQ[w], [type |-> "join", user |-> r])
                    ELSE presQ[w]]
    /\ UNCHANGED <<micVars, up, phase, sigQ, peersRef, peers, remoteStreams>>

\* the participant's channel goes away
RemoteLeaves(r) ==
    /\ \E i \in DOMAIN present : present[i] = r
    /\ present' = Without(present, r)
    /\ presQ' = [w \in DOMAIN phase |->
                    IF phase[w] \in Joined
                    THEN Append(presQ[w], [type |-> "leave", user |-> r])
                    ELSE presQ[w]]
    /\ UNCHANGED <<micVars, up, phase, sigQ, peersRef, peers, remoteStreams, menv>>

\* the participant answers the offer client u has sent it
RemoteAnswers(r, u) ==
    LET answer == [signal |-> "answer", from |-> r, to |-> u]
    IN  /\ \E i \in DOMAIN present : present[i] = r
        /\ phase[u] = "ready"
        /\ \E i \in DOMAIN peersRef[u] :
               /\ peersRef[u][i].peerId = r /\ peersRef[u][i].initiator
               /\ peersRef[u][i].st = "new" /\ peersRef[u][i].out = "none"
        /\ \A i \in DOMAIN sigQ[u] : sigQ[u][i] # answer
        /\ sigQ' = [w \in DOMAIN phase |->
                       IF phase[w] \in Joined THEN Append(sigQ[w], answer) ELSE sigQ[w]]
        /\ UNCHANGED <<micVars, up, phase, present, presQ, peersRef, peers, remoteStreams, menv>>

\* each client opens the audio room once
NextStray ==
    \/ \E u \in MeshPeers : u \notin menv.started /\ StartAudio(u) /\ UNCHANGED notMesh
    \/ \E u \in MeshPeers : AudioSubscribed(u) /\ UNCHANGED notMesh
    \/ \E u \in MeshPeers : TrackArrives(u) /\ UNCHANGED notMesh
    \/ \E u \in MeshPeers : TrackAck(u) /\ UNCHANGED notMesh
    \/ RemoteJoins(Remote) /\ UNCHANGED notMesh
    \/ \E u \in MeshPeers : OnSignal(u) /\ UNCHANGED notMesh
    \/ \E u \in MeshPeers : OnPresence(u, FALSE) /\ UNCHANGED notMesh
    \/ \E u \in MeshPeers : \E i \in DOMAIN peersRef[u] : EmitSignal(u, i) /\ UNCHANGED notMesh
    \/ \E u \in MeshPeers : \E i \in DOMAIN peersRef[u] : OnStream(u, i) /\ UNCHANGED notMesh
    \/ \E u \in MeshPeers : CleanupAudio(u) /\ UNCHANGED notMesh

SpecStray == InitMesh /\ [][NextStray]_vars

\* ---- one client among two participants that join, answer and leave
Remotes == {"C", "D"}
Solo == "A"

NextSolo ==
    \/ StartAudio(Solo) /\ UNCHANGED notMesh
    \/ AudioSubscribed(Solo) /\ UNCHANGED notMesh
    \/ TrackArrives(Solo) /\ UNCHANGED notMesh
    \/ TrackAck(Solo) /\ UNCHANGED notMesh
    \/ \E r \in Remotes : RemoteJoins(r) /\ UNCHANGED notMesh
    \/ \E r \in Remotes : RemoteAnswers(r, Solo) /\ UNCHANGED notMesh
    \/ \E r \in Remotes : RemoteLeaves(r) /\ UNCHANGED notMesh
    \/ OnSignal(Solo) /\ UNCHANGED notMesh
    \/ OnPresence(Solo, FALSE) /\ UNCHANGED notMesh
    \/ \E i \in DOMAIN peersRef[Solo] : EmitSignal(Solo, i) /\ UNCHANGED notMesh
    \/ \E i \in DOMAIN peersRef[Solo] : OnStream(Solo, i) /\ UNCHANGED notMesh
    \/ CleanupAudio(Solo) /\ UNCHANGED notMesh

SpecSolo == InitMesh /\ [][NextSolo]_vars

\* a participant outside the modelled clients calls u: its join handler ran
\* createPeer(u) and the offer is broadcast
RemoteOffers(r, u) ==
    LET offer == [signal |-> "offer", from |-> r, to |-> u]
    IN  /\ \E i \in DOMAIN present : present[i] = r
        /\ phase[u] = "ready"
        /\ \A i \in DOMAIN peersRef[u] :
               peersRef[u][i].peerId = r
               => peersRef[u][i].initiator /\ peersRef[u][i].st = "new"
        /\ \A i \in DOMAIN sigQ[u] : sigQ[u][i] # offer
        /\ sigQ' = [w \in DOMAIN phase |->
                       IF phase[w] \in Joined THEN Append(sigQ[w], offer) ELSE sigQ[w]]
        /\ UNCHANGED <<micVars, up, phase, present, presQ, peersRef, peers, remoteStreams, menv>>

\* ---- one client among callers and callees, with signals and peers that fail
NextFaults ==
    \/ StartAudio(Solo) /\ UNCHANGED notMesh
    \/ AudioSubscribed(Solo) /\ UNCHANGED notMesh
    \/ TrackArrives(Solo) /\ UNCHANGED notMesh
    \/ TrackAck(Solo) /\ UNCHANGED notMesh
    \/ \E r \in Remotes : RemoteJoins(r) /\ UNCHANGED notMesh
    \/ \E r \in Remotes : RemoteOffers(r, Solo) /\ UNCHANGED notMesh
    \/ \E r \in Remotes : RemoteAnswers(r, Solo) /\ UNCHANGED notMesh
    \/ \E r \in Remotes : RemoteLeaves(r) /\ UNCHANGED notMesh
    \/ OnSignal(Solo) /\ UNCHANGED notMesh
    \/ SignalThrows(Solo) /\ UNCHANGED notMesh
    \/ OnPresence(Solo, FALSE) /\ UNCHANGED notMesh
    \/ \E i \in DOMAIN peersRef[Solo] : EmitSignal(Solo, i) /\ UNCHANGED notMesh
    \/ \E i \in DOMAIN peersRef[Solo] : OnStream(Solo, i) /\ UNCHANGED notMesh
    \/ \E i \in DOMAIN peersRef[Solo] : PeerError(Solo, i) /\ UNCHANGED notMesh
    \/ CleanupAudio(Solo) /\ UNCHANGED notMesh

SpecFaults == InitMesh /\ [][NextFaults]_vars

\* ---- the client's microphone: asked for, granted or denied, muted and unmuted
NextMic ==
    \/ AskMicrophone(Solo) /\ UNCHANGED notMesh
    \/ MicGranted(Solo) /\ UNCHANGED notMesh
    \/ MicDenied(Solo) /\ UNCHANGED notMesh
    \/ ToggleMute(Solo) /\ UNCHANGED notMesh
    \/ AudioSubscribed(Solo) /\ UNCHANGED notMesh
    \/ TrackArrives(Solo) /\ UNCHANGED notMesh
    \/ TrackAck(Solo) /\ UNCHANGED notMesh
    \/ \E r \in Remotes : RemoteJoins(r) /\ UNCHANGED notMesh
    \/ \E r \in Remotes : RemoteAnswers(r, Solo) /\ UNCHANGED notMesh
    \/ \E r \in Remotes : RemoteLeaves(r) /\ UNCHANGED notMesh
    \/ OnSignal(Solo) /\ UNCHANGED notMesh
    \/ OnPresence(Solo, FALSE) /\ UNCHANGED notMesh
    \/ \E i \in DOMAIN peersRef[Solo] : EmitSignal(Solo, i) /\ UNCHANGED notMesh
    \/ \E i \in DOMAIN peersRef[Solo] : OnStream(Solo, i) /\ UNCHANGED notMesh
    \/ CleanupAudio(Solo) /\ UNCHANGED notMesh

SpecMic == InitMesh /\ [][NextMic]_vars

\* ------------------------------------------------------------------ presence count

\* OnPresenceSync keeping the accumulated count
OnPresenceSyncKeeps(prev, state) == prev

\* presence 'sync' handler: Object.keys(channel.presenceState()).length
OnPresenceSync(prev, state) == Cardinality(state)

\* presence 'join' handler: prev + 1
OnPresenceJoin(prev) == prev + 1

\* presence 'leave' handler: Math.max(0, prev - 1)
OnPresenceLeave(prev) == IF prev - 1 > 0 THEN prev - 1 ELSE 0

\* ---- the three handlers, called with any event in any order

HandleJoin ==
    /\ tally.events < MaxPresence
    /\ connectedUsers' = OnPresenceJoin(connectedUsers)
    /\ tally' = [tally EXCEPT !.joins = @ + 1, !.events = @ + 1, !.drift = FALSE]
    /\ UNCHANGED <<roomKeys, roomPhase, roomQ>>

HandleLeave ==
    /\ tally.events < MaxPresence
    /\ connectedUsers' = OnPresenceLeave(connectedUsers)
    /\ tally' = [tally EXCEPT !.leaves = @ + 1, !.events = @ + 1, !.drift = FALSE]
    /\ UNCHANGED <<roomKeys, roomPhase, roomQ>>

HandleSync(state) ==
    /\ tally.events < MaxPresence
    /\ connectedUsers' = OnPresenceSync(connectedUsers, state)
    /\ tally' = [joins |-> 0, leaves |-> 0, base |-> Cardinality(state),
                 events |-> tally.events + 1,
                 drift |-> connectedUsers # Cardinality(state), seen |-> state]
    /\ roomKeys' = state
    /\ UNCHANGED <<roomPhase, roomQ>>

InitCount == PresIdle /\ OthersIdle("count")

NextCount ==
    \/ HandleJoin /\ UNCHANGED notPres
    \/ HandleLeave /\ UNCHANGED notPres
    \/ \E state \in SUBSET PresKeys : HandleSync(state) /\ UNCHANGED notPres

SpecCount == InitCount /\ [][NextCount]_vars

\* ---- the handlers behind the channel: every change of the presence state
\* ---- reaches a subscribed client as its join or leave events, then a sync

RECURSIVE JoinsOf(_)
JoinsOf(keys) ==
    IF keys = {} THEN <<>>
    ELSE LET k == CHOOSE x \in keys : TRUE
         IN  <<[type |-> "join", state |-> {k}]>> \o JoinsOf(keys \ {k})

SyncOf(keys) == <<[type |-> "sync", state |-> keys]>>

Changed(type, k, keys) ==
    IF roomPhase = "none" THEN roomQ
    ELSE roomQ \o <<[type |-> type, state |-> {k}]>> \o SyncOf(keys)

\* SUBSCRIBED: the presence state arrives; the callback starts channel.track
RoomSubscribed ==
    /\ roomPhase = "none"
    /\ roomPhase' = "subscribed"
    /\ roomQ' = roomQ \o JoinsOf(roomKeys) \o SyncOf(roomKeys)
    /\ UNCHANGED <<connectedUsers, roomKeys, tally>>

\* the server records this client's track
RoomTracked ==
    /\ roomPhase = "subscribed"
    /\ roomPhase' = "tracked"
    /\ roomKeys' = roomKeys \cup {Me}
    /\ roomQ' = Changed("join", Me, roomKeys')
    /\ UNCHANGED <<connectedUsers, tally>>

PeerArrives(k) ==
    /\ k \notin roomKeys /\ tally.events < MaxChurn
    /\ roomKeys' = roomKeys \cup {k}
    /\ roomQ' = Changed("join", k, roomKeys')
    /\ tally' = [tally EXCEPT !.events = @ + 1]
    /\ UNCHANGED <<connectedUsers, roomPhase>>

PeerDeparts(k) ==
    /\ k \in roomKeys /\ tally.events < MaxChurn
    /\ roomKeys' = roomKeys \ {k}
    /\ roomQ' = Changed("leave", k, roomKeys')
    /\ tally' = [tally EXCEPT !.events = @ + 1]
    /\ UNCHANGED <<connectedUsers, roomPhase>>

\* setupSubscription again (a retry or the manual trigger): the old channel
\* is removed with what it had still to deliver; connectedUsers is kept
RoomResubscribe ==
    /\ roomPhase # "none" /\ tally.events < MaxChurn
    /\ roomPhase' = "none"
    /\ roomKeys' = roomKeys \ {Me}
    /\ roomQ' = <<>>
    /\ tally' = [tally EXCEPT !.events = @ + 1]
    /\ UNCHANGED connectedUsers

\* ghost: the peers named by the events handled so far as present
Seen(old, ev) ==
    IF ev.type = "join" THEN old \cup ev.state
    ELSE IF ev.type = "leave" THEN old \ ev.state
    ELSE ev.state

\* the next presence event reaches its handler
HandlePresence ==
    /\ roomQ # <<>>
    /\ roomQ' = Tail(roomQ)
    /\ LET ev == Head(roomQ)
       IN  /\ connectedUsers' =
               IF ev.type = "join" THEN OnPresenceJoin(connectedUsers)
               ELSE IF ev.type = "leave" THEN OnPresenceLeave(connectedUsers)
               ELSE OnPresenceSync(connectedUsers, ev.state)
           /\ tally' = [tally EXCEPT !.seen = Seen(@, ev)]
    /\ UNCHANGED <<roomKeys, roomPhase>>

InitPresence ==
    /\ \E keys \in SUBSET (PresKeys \ {Me}) :
           /\ roomKeys = keys
           /\ connectedUsers = 0 /\ roomPhase = "none" /\ roomQ = <<>>
           /\ tally = [joins |-> 0, leaves |-> 0, base |-> 0, events |-> 0, drift |-> FALSE, seen |-> {}]
    /\ OthersIdle("presence")

NextPresence ==
    \/ RoomSubscribed /\ UNCHANGED notPres
    \/ RoomTracked /\ UNCHANGED notPres
    \/ \E k \in PresKeys \ {Me} : PeerArrives(k) /\ UNCHANGED notPres
    \/ \E k \in PresKeys \ {Me} : PeerDeparts(k) /\ UNCHANGED notPres
    \/ RoomResubscribe /\ UNCHANGED notPres
    \/ HandlePresence /\ UNCHANGED notPres

SpecPresence == InitPresence /\ [][NextPresence]_vars

\* ------------------------------------------------------------------ cursors

CurJoined == {"subscribed", "tracked", "ready"}

\* the tabs whose cursor channel is joined, other than t (broadcasts do not
\* come back to the tab that sent them)
CurListeners(t) == {w \in Tabs \ {t} : curPhase[w] \in CurJoined}

\* channelRef.current?.send({ event: EVENT_NAME, payload })
CursorSend(t, pos) ==
    [w \in Tabs |->
        IF curPhase[t] = "ready" /\ w \in CurListeners(t)
        THEN Append(curBcastQ[w], [user |-> userId[t], pos |-> pos])
        ELSE curBcastQ[w]]

RECURSIVE CurStateJoins(_)
CurStateJoins(ts) ==
    IF ts = {} THEN <<>>
    ELSE LET x == CHOOSE y \in ts : TRUE
         IN  <<[type |-> "join", user |-> userId[x]]>> \o CurStateJoins(ts \ {x})

\* the effect body: supabase.channel(...).on(...).subscribe(...)
CursorStart(t) ==
    /\ curPhase[t] \in {"none", "stale"} /\ cenv.starts < MaxStarts
    /\ curPhase' = [curPhase EXCEPT ![t] = "subscribing"]
    /\ cenv' = [cenv EXCEPT !.starts = @ + 1]
    /\ UNCHANGED <<cursors, payloadRef, curPresent, curPresQ, curBcastQ, userId>>

\* SUBSCRIBED: the presence state arrives, the callback starts channel.track
CursorSubscribed(t) ==
    /\ curPhase[t] = "subscribing"
    /\ curPhase' = [curPhase EXCEPT ![t] = "subscribed"]
    /\ curPresQ' = [curPresQ EXCEPT ![t] = @ \o CurStateJoins(curPresent)]
    /\ UNCHANGED <<cursors, payloadRef, curPresent, curBcastQ, userId, cenv>>

\* the server records the track and tells every joined tab, t included
CursorTracked(t) ==
    /\ curPhase[t] = "subscribed"
    /\ curPhase' = [curPhase EXCEPT ![t] = "tracked"]
    /\ curPresent' = curPresent \cup {t}
    /\ curPresQ' = [w \in Tabs |->
                       IF curPhase'[w] \in CurJoined
                       THEN Append(curPresQ[w], [type |-> "join", user |-> userId[t]])
                       ELSE curPresQ[w]]
    /\ UNCHANGED <<cursors, payloadRef, curBcastQ, userId, cenv>>

\* await channel.track returns: channelRef.current = channel
CursorTrackAck(t) ==
    /\ curPhase[t] = "tracked"
    /\ curPhase' = [curPhase EXCEPT ![t] = "ready"]
    /\ UNCHANGED <<cursors, payloadRef, curPresent, curPresQ, curBcastQ, userId, cenv>>

\* callback(event), as the throttle lets it through
CursorMove(t, pos) ==
    /\ cenv.moves < MaxMoves
    /\ payloadRef' = [payloadRef EXCEPT ![t] = pos]
    /\ curBcastQ' = CursorSend(t, pos)
    /\ cenv' = [cenv EXCEPT !.moves = @ + 1]
    /\ UNCHANGED <<cursors, curPhase, curPresent, curPresQ, userId>>

\* presence 'join' handler: announce the own position again
CursorOnJoin(t, user) ==
    /\ curBcastQ' = IF payloadRef[t] = NoCursor THEN curBcastQ
                    ELSE CursorSend(t, payloadRef[t])
    /\ cenv' = [cenv EXCEPT !.gone[t] = @ \ {user}]
    /\ UNCHANGED cursors

\* presence 'leave' handler: delete newCursors[element.user_id]
CursorOnLeave(t, user) ==
    /\ cursors' = [cursors EXCEPT ![t][user] = NoCursor]
    /\ cenv' = [cenv EXCEPT !.gone[t] = @ \cup {user}]
    /\ UNCHANGED curBcastQ

CursorOnPresence(t) ==
    /\ curPresQ[t] # <<>> /\ curPhase[t] \in CurJoined
    /\ curPresQ' = [curPresQ EXCEPT ![t] = Tail(@)]
    /\ LET ev == Head(curPresQ[t])
       IN  IF ev.type = "join" THEN CursorOnJoin(t, ev.user)
           ELSE CursorOnLeave(t, ev.user)
    /\ UNCHANGED <<curPhase, payloadRef, curPresent, userId>>

IsOwnNever(t, user) == FALSE

\* if (user.id === userId) return
IsOwn(t, user) == user = userId[t]

\* broadcast handler: the sender's entry is set to the payload
CursorOnBroadcast(t) ==
    /\ curBcastQ[t] # <<>> /\ curPhase[t] \in CurJoined
    /\ curBcastQ' = [curBcastQ EXCEPT ![t] = Tail(@)]
    /\ LET data == Head(curBcastQ[t])
       IN  /\ cursors' = IF IsOwn(t, data.user) THEN cursors
                         ELSE [cursors EXCEPT ![t][data.user] = data.pos]
           /\ cenv' = IF data.user = userId[t]
                      THEN [cenv EXCEPT !.echoed = @ \cup {t}] ELSE cenv
    /\ UNCHANGED <<curPhase, payloadRef, curPresent, curPresQ, userId>>

\* the effect cleanup: channel.unsubscribe(); channelRef.current = null
\* a cleanup that finds channel.track still awaited leaves its continuation
\* pending ("closing"): nothing cancels it
CursorCleanup(t) ==
    /\ curPhase[t] \in {"subscribing", "subscribed", "tracked", "ready"}
    /\ curPhase' = [curPhase EXCEPT ![t] =
                       IF @ \in {"subscribed", "tracked"} THEN "closing" ELSE "none"]
    /\ curPresent' = curPresent \ {t}
    /\ curPresQ' = [w \in Tabs |->
                       IF w = t THEN <<>>
                       ELSE IF t \in curPresent /\ curPhase[w] \in CurJoined
                       THEN Append(curPresQ[w], [type |-> "leave", user |-> userId[t]])
                       ELSE curPresQ[w]]
    /\ curBcastQ' = [curBcastQ EXCEPT ![t] = <<>>]
    /\ UNCHANGED <<cursors, payloadRef, userId, cenv>>

\* await channel.track returns after the cleanup: channelRef.current = channel,
\* the channel that was unsubscribed
CursorTrackLate(t) ==
    /\ curPhase[t] = "closing"
    /\ curPhase' = [curPhase EXCEPT ![t] = "stale"]
    /\ UNCHANGED <<cursors, payloadRef, curPresent, curPresQ, curBcastQ, userId, cenv>>

\* channelRef.current of tab t: the channel of the running effect, the
\* channel of an effect that was cleaned up, or null
ChannelHandle(t) ==
    IF curPhase[t] = "ready" THEN "current"
    ELSE IF curPhase[t] = "stale" THEN "old"
    ELSE "null"

\* the cursor effect of tab t is not running: never started, or cleaned up
CursorTornDown(t) == curPhase[t] \in {"none", "closing", "stale"}

InitCursors ==
    /\ \E second \in CursorUsers : CursorIdle(second)
    /\ OthersIdle("cursors")

NextCursors ==
    \/ \E t \in Tabs : CursorStart(t) /\ UNCHANGED notCur
    \/ \E t \in Tabs : CursorSubscribed(t) /\ UNCHANGED notCur
    \/ \E t \in Tabs : CursorTracked(t) /\ UNCHANGED notCur
    \/ \E t \in Tabs : CursorTrackAck(t) /\ UNCHANGED notCur
    \/ \E t \in Tabs, pos \in CursorPos : CursorMove(t, pos) /\ UNCHANGED notCur
    \/ \E t \in Tabs : CursorOnPresence(t) /\ UNCHANGED notCur
    \/ \E t \in Tabs : CursorOnBroadcast(t) /\ UNCHANGED notCur
    \/ \E t \in Tabs : CursorCleanup(t) /\ UNCHANGED notCur
    \/ \E t \in Tabs : CursorTrackLate(t) /\ UNCHANGED notCur

SpecCursors == InitCursors /\ [][NextCursors]_vars

\* ------------------------------------------------------------------ chat lists
\* The AI list (AiSidebar, and the AI tab of the unified sidebar, part_007
\* 76-125) and the team list (Chat, and the team tab, part_007 184-232): each
\* effect asks for the rows of its table and subscribes to the table's INSERTs.
MessageIds == 1..MaxMessages

Holds(list, id) == \E i \in DOMAIN list : list[i] = id

\* setMessages(prev => prev.some(m => m.id === newMessage.id) ? prev : [...prev, newMessage])
AiAppend(prev, id) == IF Holds(prev, id) THEN prev ELSE Append(prev, id)

\* setMessages((prev) => [...prev, data])
TeamAppend(prev, id) == Append(prev, id)

\* .subscribe(): the channel joins
ChatSubscribed(k) ==
    /\ chatChan[k] = "joining"
    /\ chatChan' = [chatChan EXCEPT ![k] = "joined"]
    /\ UNCHANGED <<aiMessages, teamMessages, chatDb, chatQ, chatFetch, chatEnv>>

\* somebody's supabase.from(table).insert(...): a row, and its notification to
\* a joined channel
ChatInsert(k, id) ==
    /\ ~Holds(chatDb[k], id)
    /\ chatDb' = [chatDb EXCEPT ![k] = Append(@, id)]
    /\ chatQ' = [chatQ EXCEPT ![k] = IF chatChan[k] = "joined" THEN Append(@, id) ELSE @]
    /\ UNCHANGED <<aiMessages, teamMessages, chatChan, chatFetch, chatEnv>>

\* at-least-once delivery: a notification on its way is sent once more
ChatDuplicate(k) ==
    /\ chatEnv.dups < MaxDup /\ chatQ[k] # <<>>
    /\ \E i \in DOMAIN chatQ[k] : chatQ' = [chatQ EXCEPT ![k] = Append(@, chatQ[k][i])]
    /\ chatEnv' = [chatEnv EXCEPT !.dups = @ + 1]
    /\ UNCHANGED <<aiMessages, teamMessages, chatDb, chatChan, chatFetch>>

\* fetchMessages: the select runs on the table
ChatFetchRuns(k) ==
    /\ chatFetch[k].st = "asked"
    /\ chatFetch' = [chatFetch EXCEPT ![k] = [st |-> "rows", rows |-> chatDb[k]]]
    /\ UNCHANGED <<aiMessages, teamMessages, chatDb, chatChan, chatQ, chatEnv>>

\* fetchMessages after the await: setMessages(data || [])
ChatFetched(k) ==
    /\ chatFetch[k].st = "rows"
    /\ aiMessages' = IF k = "ai" THEN chatFetch[k].rows ELSE aiMessages
    /\ teamMessages' = IF k = "team" THEN chatFetch[k].rows ELSE teamMessages
    /\ chatFetch' = [chatFetch EXCEPT ![k] = [st |-> "done", rows |-> <<>>]]
    /\ UNCHANGED <<chatDb, chatChan, chatQ, chatEnv>>

\* the postgres_changes INSERT handler of list k, up to its setMessages
ChatOnInsert(k) ==
    /\ chatQ[k] # <<>>
    /\ chatQ' = [chatQ EXCEPT ![k] = Tail(@)]
    /\ aiMessages' = IF k = "ai" THEN AiAppend(aiMessages, Head(chatQ[k])) ELSE aiMessages
    /\ teamMessages' = IF k = "team" THEN TeamAppend(teamMessages, Head(chatQ[k]))
                       ELSE teamMessages
    /\ UNCHANGED <<chatDb, chatChan, chatFetch, chatEnv>>

InitChat == ChatIdle /\ OthersIdle("chat")

NextChat ==
    \/ \E k \in ChatKinds : ChatSubscribed(k) /\ UNCHANGED notChat
    \/ \E k \in ChatKinds, id \in MessageIds : ChatInsert(k, id) /\ UNCHANGED notChat
    \/ \E k \in ChatKinds : ChatDuplicate(k) /\ UNCHANGED notChat
    \/ \E k \in ChatKinds : ChatFetchRuns(k) /\ UNCHANGED notChat
    \/ \E k \in ChatKinds : ChatFetched(k) /\ UNCHANGED notChat
    \/ \E k \in ChatKinds : ChatOnInsert(k) /\ UNCHANGED notChat

SpecChat == InitChat /\ [][NextChat]_vars

\* ------------------------------------------------------------------ claims, document sync
\* nothing is in flight and no write was rejected
Quiescent ==
    /\ \A p \in DOMAIN writes : writes[p] = <<>> /\ resp[p] = <<>>
    /\ \A p \in DOMAIN notifQ : notifQ[p] = <<>> /\ bcastQ[p] = <<>>
    /\ ~env.failed

\* C1: once editing has stopped and every notification and broadcast has been
\* delivered, every peer's store holds exactly the records of the durable store.
Converges ==
    Quiescent => \A p \in DOMAIN store : \A i \in DOMAIN db : store[p][i] = db[i].val

\* the step is p's postgres_changes callback running on notifQ[p]'s head
NotifStep(p) == notifQ[p] # <<>> /\ notifQ'[p] = Tail(notifQ[p])

\* the step is p's broadcast callback running on bcastQ[p][i]
BcastStep(p, i) == i \in DOMAIN bcastQ[p] /\ bcastQ'[p] = RemoveAt(bcastQ[p], i)

\* C2: a remote event whose originator is the local user is never applied: handling
\* it leaves the store unchanged and issues no write and no broadcast.
EchoSuppressed ==
    [][\A p \in DOMAIN store :
        ((NotifStep(p) /\ Head(notifQ[p]).by = p)
            \/ \E i \in DOMAIN bcastQ[p] : BcastStep(p, i) /\ bcastQ[p][i].by = p)
        => /\ store'[p] = store[p]
           /\ writes' = writes /\ resp' = resp
           /\ \A q \in DOMAIN bcastQ : q # p => bcastQ'[q] = bcastQ[q]]_vars

\* C3: a remote put handled twice in a row (by the durable callback, the broadcast
\* callback, or one of each) leaves the store as the first handling left it.
PutIdempotent ==
    [][(last'.tick # last.tick /\ rep' /\ Kind(last'.ev) = "put") => store' = store]_vars

PutTwiceSeen ==
    /\ rep /\ Kind(last.ev) = "put" /\ last.ev.by # Self
    /\ store[Self][last.ev.id] = last.ev.val

\* the callback applies delete e: the durable path always, the broadcast path for others
DeleteApplies(e) == e.op = "DELETE" \/ (e.op = "delete" /\ e.by # Self)

\* C4: a remote delete of id x, with x present, absent, or deleted just before,
\* leaves the store without x and every other record as it was.
TombstoneIdempotent ==
    [][(last'.tick # last.tick /\ DeleteApplies(last'.ev))
        => store'[Self] = [i \in MergeIds |->
                             IF i = last'.ev.id THEN Absent ELSE store[Self][i]]]_vars

DeleteTwiceSeen ==
    /\ rep /\ DeleteApplies(last.ev)
    /\ store[Self][last.ev.id] = Absent
    /\ \E i \in MergeIds : store[Self][i] # Absent

\* C5: any two remote events that may be handled next in either order give the same
\* store in both orders (shown already where no write was rejected).
MergeCommutes ==
    \A p \in DOMAIN store :
        (notifQ[p] # <<>> /\ ~env.failed) =>
            \A i \in {j \in DOMAIN bcastQ[p] : Deliverable(bcastQ[p], j)} :
                OnBroadcast(p, bcastQ[p][i], OnPostgresChange(p, Head(notifQ[p]), store[p]))
                    = OnPostgresChange(p, Head(notifQ[p]), OnBroadcast(p, bcastQ[p][i], store[p]))

\* everything that carries a record off the client or back: requests, answered
\* requests, notifications, broadcasts
InFlight ==
    UNION {{writes[p][i] : i \in DOMAIN writes[p]} \cup {resp[p][i] : i \in DOMAIN resp[p]}
           \cup {notifQ[p][i] : i \in DOMAIN notifQ[p]}
           \cup {bcastQ[p][i] : i \in DOMAIN bcastQ[p]} : p \in DOMAIN writes}

\* C15: a local change to a record of type instance, camera or pointer never
\* leads to an upsert, a delete or a broadcast, whichever change path it takes.
EphemeralExcluded ==
    \A id \in DOMAIN db :
        TypeName(id) \in {"instance", "camera", "pointer"}
        => db[id].val = Absent /\ \A x \in InFlight : x.id # id

\* both edits so far were to session records, none of which is shown elsewhere
EphemeralEdited ==
    /\ env.edits = MaxEdits /\ InFlight = {}
    /\ \E p \in DOMAIN store : \E id \in DOMAIN db :
           /\ TypeName(id) \in {"instance", "camera", "pointer"} /\ store[p][id] # Absent
           /\ \A i \in DOMAIN db : db[i].val = Absent /\ (i # id => store[p][i] = Absent)

\* C22: a local change to a document record issues one write request and, in
\* the same step and so before any answer to that request, one broadcast
\* to every other peer, tagged with the local user.
DualPath ==
    [][\A p \in DOMAIN writes :
          Len(writes'[p]) = Len(writes[p]) + 1
          => \A q \in DOMAIN bcastQ \ {p} :
                 /\ Len(bcastQ'[q]) = Len(bcastQ[q]) + 1
                 /\ bcastQ'[q][Len(bcastQ'[q])].by = p
                 /\ bcastQ'[q][Len(bcastQ'[q])].id = writes'[p][Len(writes'[p])].id]_vars

\* C23: a delete is not final.  An upsert committed when the row is gone
\* puts the row back, and a peer that handles another peer's update for a
\* record it no longer holds puts the record back; so an update made while
\* a delete of the same record is under way brings the record back.
DeleteNotFinal ==
    [][/\ \A p \in DOMAIN writes :
            (/\ writes[p] # <<>> /\ writes'[p] = Tail(writes[p]) /\ notifQ' # notifQ
             /\ Head(writes[p]).op = "upsert")
            => db'[Head(writes[p]).id].val = Head(writes[p]).val
       /\ \A p \in DOMAIN store :
            /\ (NotifStep(p) /\ Head(notifQ[p]).op \in {"INSERT", "UPDATE"}
                    /\ Head(notifQ[p]).by # p)
               => store'[p][Head(notifQ[p]).id] = Head(notifQ[p]).val
            /\ \A i \in DOMAIN bcastQ[p] :
                  (BcastStep(p, i) /\ Deliverable(bcastQ[p], i)
                      /\ bcastQ[p][i].op = "update" /\ bcastQ[p][i].by # p)
                  => store'[p][bcastQ[p][i].id] = bcastQ[p][i].val]_vars

\* A deleted x and the delete was committed; B, not yet told of it, updated
\* x; B's upsert was committed after the delete and A has handled B's
\* update: x is in the table and in A's store again.
UpdateDeleteRace ==
    \E x \in DOMAIN db :
        /\ db[x].val # Absent /\ db[x].by = "B"
        /\ store["A"][x] = db[x].val
        /\ \E i \in DOMAIN notifQ["B"] :
               /\ notifQ["B"][i] = [op |-> "DELETE", id |-> x, val |-> Absent, by |-> "A"]
               /\ \E j \in DOMAIN notifQ["B"] :
                      i < j /\ notifQ["B"][j].op = "INSERT" /\ notifQ["B"][j].by = "B"
        /\ \/ \E i \in DOMAIN bcastQ["B"] : bcastQ["B"][i].op = "delete"
           \/ \E i \in DOMAIN resp["A"] : resp["A"][i].op = "delete"

\* ------------------------------------------------------------------ claims, reconnection
\* C8 as stated: once maxRetries failures in a row have been seen, no automatic
\* retry is scheduled any more.
StopsAfterMaxRetries ==
    \A i \in Instances : consec[i] = maxRetries => \A x \in DOMAIN timers : x.inst # i

\* C8, amended: each of the first maxRetries failures in a row schedules one retry,
\* the next one (and any later one) schedules none, and with no retry pending a new
\* subscription is only ever made by the manual trigger.
RetryBound ==
    [][/\ \A i \in Instances :
            consec'[i] = consec[i] + 1 =>
                IF consec[i] < maxRetries
                THEN BagCardinality(timers') = BagCardinality(timers) + 1
                ELSE timers' = timers
       /\ BagCardinality(timers') > BagCardinality(timers) =>
            \E i \in Instances : consec'[i] = consec[i] + 1 /\ consec[i] < maxRetries
       /\ (timers = EmptyBag /\ mounted /\ channelRef' # channelRef /\ Len(chans') >= Len(chans)
              /\ mounted')
            => retryTrigger' = retryTrigger + 1]_vars

CapReached ==
    \E i \in Instances :
        /\ consec[i] = maxRetries + 1 /\ retryCount[i] = maxRetries
        /\ timers = EmptyBag /\ mounted /\ i = retryTrigger
        /\ connectionStatus = "disconnected"

\* C9: the manual trigger resets the retry counter to 0 and moves the connection
\* status to "connecting".
ManualResets ==
    [][retryTrigger' = retryTrigger + 1
        => connectionStatus' = "connecting" /\ retryCount'[retryTrigger'] = 0]_vars

\* C20: the k-th failure in a row seen by a subscription, k = 1..maxRetries,
\* schedules its retry BaseDelay * k ms ahead, and every SUBSCRIBED status
\* sets the retry counter back to 0.
BackoffSchedule ==
    [][/\ \A i \in Instances :
            (consec'[i] = consec[i] + 1 /\ consec[i] < maxRetries)
            => /\ retryCount'[i] = consec'[i]
               /\ BagCardinality(timers') = BagCardinality(timers) + 1
               /\ \A x \in DOMAIN timers' :
                      (x.inst = i /\ x.latest) => x.delay = BaseDelay * consec'[i]
               /\ \E x \in DOMAIN timers' : x.inst = i /\ x.latest
       /\ \A c \in DOMAIN chans :
            (chans[c].st # "joined" /\ chans' = [chans EXCEPT ![c].st = "joined"])
            => retryCount'[chans[c].owner] = 0]_vars

\* the third retry of a run is still pending, a SUBSCRIBED status came after
\* it was scheduled, and the failure after that scheduled a first retry again
BackoffRestarted ==
    \E i \in Instances :
        /\ BagIn([inst |-> i, delay |-> BaseDelay * maxRetries, latest |-> FALSE], timers)
        /\ BagIn([inst |-> i, delay |-> BaseDelay, latest |-> TRUE], timers)
        /\ retryCount[i] = 1

\* the channels the session has subscribed and not removed
LiveChannels == {c \in DOMAIN chans : chans[c].st # "leaving"}

\* C24: whatever retries, manual reconnects and status callbacks have run,
\* at most one channel of the session is subscribed and not removed, and it
\* is the one channelRef holds.
SingleLiveChannel ==
    /\ Cardinality(LiveChannels) <= 1
    /\ \A c \in LiveChannels : channelRef = c

\* after a manual reconnect a retry of the new subscription has replaced its
\* channel, the removed one still leaving
ChannelReplaced ==
    /\ retryTrigger > 0 /\ mounted
    /\ LiveChannels # {} /\ LiveChannels # DOMAIN chans
    /\ \A c \in DOMAIN chans : chans[c].owner = retryTrigger

\* ------------------------------------------------------------------ claims, cursor throttle
\* C10: samples at t = 0, 10 and 20 ms give one dispatch at t = 0 and one at t = 50,
\* and the one at t = 50 carries the sample taken at t = 20.
ThrottleLaw ==
    (/\ Len(samples) = 3
     /\ samples = <<samples[1], samples[1] + 10, samples[1] + 20>>
     /\ now = samples[1] + throttleMs
     /\ timeout = NoTimeout)
    => dispatches = <<[at |-> samples[1], pos |-> samples[1]],
                      [at |-> samples[1] + throttleMs, pos |-> samples[1] + 20]>>

\* C19: at most one trailing call is pending at any time, two dispatches in a
\* row are at least throttleMs apart, and samples that all fall inside one
\* window cause at most two dispatches.
ThrottleRate ==
    /\ Cardinality(pending) <= 1
    /\ \A i \in 1..(Len(dispatches) - 1) :
           dispatches[i + 1].at - dispatches[i].at >= throttleMs
    /\ (samples # <<>> /\ samples[Len(samples)] - samples[1] < throttleMs)
       => Len(dispatches) <= 2

\* three or more samples of one window, the first sent at once and one
\* trailing call sent for the rest
BurstThrottled ==
    /\ Len(samples) >= 3 /\ samples[Len(samples)] - samples[1] < throttleMs
    /\ Len(dispatches) = 2 /\ pending = {}
    /\ dispatches[1].at = samples[1]

\* ------------------------------------------------------------------ claims, audio mesh

LiveInitiator(a, b) ==
    \E i \in DOMAIN peersRef[a] :
        /\ peersRef[a][i].peerId = b
        /\ peersRef[a][i].initiator
        /\ peersRef[a][i].st # "destroyed"

\* a was tracked on the channel before b joined it, and both still are
PresentBefore(a, b) ==
    \E i, j \in DOMAIN present : i < j /\ present[i] = a /\ present[j] = b

\* C6: when B joined a room where A was already present, A and B never
\* both hold an initiator connection toward each other.
NoMutualInitiators ==
    \A a, b \in MeshPeers :
        PresentBefore(a, b) => ~(LiveInitiator(a, b) /\ LiveInitiator(b, a))

\* C7: a client's peer list never holds two entries for the same remote
\* peer id, whatever the order of joins, leaves and signals.
OnePeerEach ==
    \A u \in MeshPeers : \A i, j \in DOMAIN peersRef[u] :
        peersRef[u][i].peerId = peersRef[u][j].peerId => i = j

\* a join found its peer already in the list, which a signal had put there
JoinAfterSignal ==
    \E u \in menv.skipped : \E i \in DOMAIN peersRef[u] : ~peersRef[u][i].initiator

\* C16: a client handling a signal addressed to another client creates no
\* peer, hands the signal to none of its peers and keeps its peer list.
StraySignalDropped ==
    [][\A u \in DOMAIN sigQ :
          (/\ sigQ[u] # <<>> /\ sigQ'[u] = Tail(sigQ[u]) /\ up' = up
           /\ Head(sigQ[u]).to # u)
          => peersRef'[u] = peersRef[u] /\ peers'[u] = peers[u]]_vars

\* one client has dropped a stray signal whose sender it held a peer for,
\* another one a stray signal whose sender it held none for
StraysDropped ==
    \E u, w \in DOMAIN sigQ : <<u, TRUE>> \in menv.strays /\ <<w, FALSE>> \in menv.strays

StepAt(log, step) == CHOOSE i \in DOMAIN log : log[i] = step

RunsBefore(log, a, b) ==
    /\ \E i \in DOMAIN log : log[i] = a
    /\ \E i \in DOMAIN log : log[i] = b
    /\ StepAt(log, a) < StepAt(log, b)

\* C18: a teardown that closes the audio channel stops the local listeners
\* first, then leaves presence and closes the channel, then stops the media
\* tracks, then destroys the peers.
TeardownOrder ==
    \A u \in DOMAIN menv.teardown :
        LET log == menv.teardown[u]
        IN  (\E i \in DOMAIN log : log[i] = "channel")
            => /\ RunsBefore(log, "listeners", "channel")
               /\ RunsBefore(log, "channel", "tracks")
               /\ RunsBefore(log, "tracks", "peers")

\* C25: a client handling the leave of peer P drops P's entry and P's
\* stream and keeps every other entry and stream as it was; a teardown
\* leaves every peer of the client destroyed and no microphone track live.
LeaveTearsDown ==
    [][\A u \in DOMAIN presQ :
          /\ (/\ presQ[u] # <<>> /\ presQ'[u] = Tail(presQ[u]) /\ up' = up
               /\ Head(presQ[u]).type = "leave")
             => LET P == Head(presQ[u]).user
                IN  /\ peersRef'[u] = SelectSeq(peersRef[u], LAMBDA e : e.peerId # P)
                    /\ remoteStreams'[u] = remoteStreams[u] \ {P}
          /\ (up[u] /\ ~up'[u])
             => /\ \A i \in DOMAIN peersRef'[u] : peersRef'[u][i].st = "destroyed"
                /\ userStream'[u].tracks # "live"]_vars

\* a client that dropped one peer's entry and stream still holds another's
OthersKept ==
    \E u \in menv.torn : \E q \in remoteStreams[u] :
        \E i \in DOMAIN peersRef[u] : peersRef[u][i].peerId = q /\ peersRef[u][i].st = "streamed"

\* C26: the track is disabled when the microphone stream is taken up; once
\* there is a stream the muted flag is the negation of the track's enabled
\* flag; a click on the mute button changes no peer, signal or presence
\* state, and changes nothing at all while there is no stream.
MuteState ==
    /\ [](\A u \in DOMAIN userStream :
             userStream[u].tracks # "none" => isMuted[u] = ~userStream[u].enabled)
    /\ [][/\ \A u \in DOMAIN userStream :
               (userStream[u].tracks # "live" /\ userStream'[u].tracks = "live")
               => ~userStream'[u].enabled /\ isMuted'[u]
          /\ menv'.toggles = menv.toggles + 1
             => /\ UNCHANGED <<up, phase, present, presQ, sigQ, peersRef, peers, remoteStreams>>
                /\ \A u \in DOMAIN userStream :
                       userStream[u].tracks = "none"
                       => userStream'[u] = userStream[u] /\ isMuted'[u] = isMuted[u]]_vars

\* the client is unmuted, with a peer whose stream has arrived
UnmutedAmongPeers ==
    \E u \in DOMAIN userStream :
        /\ menv.toggles > 0 /\ ~isMuted[u]
        /\ userStream[u] = [tracks |-> "live", enabled |-> TRUE]
        /\ remoteStreams[u] # {}

\* C27: whenever a tab handles a presence join, a tab that has sampled the
\* pointer sends its latest sample to every other joined tab, and a tab that has
\* sampled nothing sends nothing.
JoinReannounce ==
    [][\A t \in DOMAIN curPresQ :
          (curPresQ[t] # <<>> /\ curPresQ'[t] = Tail(curPresQ[t])
              /\ curPhase' = curPhase /\ Head(curPresQ[t]).type = "join")
          => IF payloadRef[t] = NoCursor
             THEN curBcastQ' = curBcastQ
             ELSE \A w \in DOMAIN curBcastQ :
                     (w # t /\ curPhase[w] \in CurJoined)
                     => curBcastQ'[w] = Append(curBcastQ[w],
                                               [user |-> userId[t], pos |-> payloadRef[t]])]_vars

\* the entries a client holds for the peers other than P
EntriesBut(list, P) == SelectSeq(list, LAMBDA e : e.peerId # P)

\* the step is a failure of u's peer P: P's connection goes down with an
\* error while the client stays mounted, or a signal from P is consumed and
\* leaves no usable connection to P
PeerFails(u, P) ==
    /\ up'[u] = up[u]
    /\ \/ /\ \E i \in DOMAIN peersRef[u] :
                  peersRef[u][i].peerId = P /\ peersRef[u][i].st # "destroyed"
          /\ \E i \in DOMAIN peersRef'[u] : peersRef'[u][i].peerId = P
          /\ \A i \in DOMAIN peersRef'[u] :
                  peersRef'[u][i].peerId = P => peersRef'[u][i].st = "destroyed"
       \/ /\ sigQ[u] # <<>> /\ sigQ'[u] = Tail(sigQ[u])
          /\ Head(sigQ[u]).to = u /\ Head(sigQ[u]).from = P
          /\ \A i \in DOMAIN peersRef'[u] :
                  peersRef'[u][i].peerId = P => peersRef'[u][i].st = "destroyed"

\* C28: when a client's peer P fails (applying a signal from P fails on
\* either path, or P's connection reports an error), the entries and remote
\* streams the client holds for every other peer are as before, the client
\* stays subscribed and the events still queued for it stay queued.
FailureIsolated ==
    [][\A u \in DOMAIN peersRef : \A P \in Remotes \cup DOMAIN peersRef :
          PeerFails(u, P)
          => /\ EntriesBut(peersRef'[u], P) = EntriesBut(peersRef[u], P)
             /\ remoteStreams'[u] \ {P} = remoteStreams[u] \ {P}
             /\ phase'[u] = phase[u] /\ presQ'[u] = presQ[u]
             /\ sigQ'[u] = sigQ[u] \/ (sigQ[u] # <<>> /\ sigQ'[u] = Tail(sigQ[u]))]_vars

\* one peer of the client has failed while another one is connected and
\* events are still waiting to be handled
FailedBesideConnected ==
    \E u \in DOMAIN peersRef : \E i, j \in DOMAIN peersRef[u] :
        /\ up[u] /\ phase[u] = "ready"
        /\ peersRef[u][i].peerId # peersRef[u][j].peerId
        /\ peersRef[u][i].st = "destroyed"
        /\ peersRef[u][j].st = "streamed" /\ peersRef[u][j].peerId \in remoteStreams[u]

\* C29: when the microphone is refused the client is shown the warning, and
\* from then until the audio effect runs again it is not subscribed to the
\* signaling channel, not in its presence state, and creates no peer; the
\* refusal itself changes nothing of the document, the cursors, the presence
\* count or the connection state.
MicFailureConfined ==
    /\ [](\A u \in menv.warned :
             /\ phase[u] = "none"
             /\ \A i \in DOMAIN present : present[i] # u
             /\ \A i \in DOMAIN peersRef[u] : peersRef[u][i].st = "destroyed")
    /\ [][/\ \A u \in menv.warned \cap menv'.warned :
               /\ peersRef'[u] = peersRef[u] /\ peers'[u] = peers[u]
               /\ userStream'[u].tracks # "live"
          /\ menv'.warned # menv.warned /\ menv'.restarts = menv.restarts
             => /\ menv'.warned \ menv.warned # {}
                /\ UNCHANGED <<peersRef, peers, remoteStreams, present, presQ, sigQ>>
                /\ UNCHANGED <<store, db, writes, cursors, curPhase, connectedUsers,
                               roomPhase, connectionStatus, retryCount, channelRef>>]_vars

\* the microphone was refused while another participant is in the audio room
DeniedWhileOthersTalk ==
    \E u \in menv.warned : up[u] /\ present # <<>> /\ userStream[u].tracks = "none"

\* C30: when the durable store rejects a write, the request is gone from
\* the sender's outgoing requests and none is added (new requests come from
\* user edits only), every store keeps what it held, the table is unchanged,
\* and the connection status, the retry counter and the presence count are
\* unchanged.
WriteFailureKept ==
    [][/\ (~env.failed /\ env'.failed)
          => /\ \E p \in DOMAIN writes :
                    /\ writes[p] # <<>>
                    /\ writes' = [writes EXCEPT ![p] = Tail(@)]
                    /\ resp' = [resp EXCEPT ![p] = Append(@, Head(writes[p]))]
             /\ UNCHANGED <<store, db, notifQ, bcastQ>>
             /\ UNCHANGED <<connectionStatus, retryCount, retryTrigger, timers,
                            channelRef, connectedUsers>>
       /\ \A p \in DOMAIN writes :
              Len(writes'[p]) > Len(writes[p]) => env'.edits = env.edits + 1]_vars

\* a write was rejected, nothing is in flight any more, and the sender's store
\* still holds the record the table never took
KeptAfterRejection ==
    /\ env.failed
    /\ \A p \in DOMAIN writes : writes[p] = <<>> /\ resp[p] = <<>>
    /\ \A p \in DOMAIN notifQ : notifQ[p] = <<>> /\ bcastQ[p] = <<>>
    /\ \E p \in DOMAIN store : \E id \in DOMAIN db :
           store[p][id] # db[id].val /\ store[p][id] # Absent

\* ------------------------------------------------------------------ claims, presence count

Max0(x) == IF x > 0 THEN x ELSE 0

\* C11: from a count of 0 and with no sync since, after n joins and m leaves
\* in any order the count is max(0, n - m).
PresenceArithmetic ==
    tally.base = 0 => connectedUsers = Max0(tally.joins - tally.leaves)

\* C12: right after a sync carrying the peer set S is handled the count is
\* |S|, whatever was accumulated before.
SyncReplaces ==
    [][\A S \in SUBSET PresKeys :
          (tally'.events = tally.events + 1 /\ tally'.joins = 0 /\ tally'.leaves = 0
           /\ roomKeys' = S)
          => connectedUsers' = Cardinality(S)]_vars

\* a sync was handled after joins and leaves had moved the count off |S|
SyncAfterDrift ==
    /\ tally.drift /\ tally.events > 2
    /\ connectedUsers = 1 /\ roomKeys # {Me}

\* C13: once every presence event sent to the subscribed client has been
\* handled, the count shown is the number of peers present on the channel.
PeerCountConsistent ==
    (roomPhase # "none" /\ roomQ = <<>>) => connectedUsers = Cardinality(roomKeys)

\* the client resubscribed and peers came and went, and all of it is handled
ChurnHandled ==
    /\ roomPhase = "tracked" /\ roomQ = <<>>
    /\ tally.events = MaxChurn /\ Cardinality(roomKeys) = 2

\* C21: handling a join changes the count by the number of peers it names
\* that were not yet counted, handling a leave by the number it names that
\* were; so a join of a counted peer and a leave of an uncounted one change
\* nothing.
PresenceIdempotent ==
    [][(roomQ # <<>> /\ roomQ' = Tail(roomQ) /\ roomPhase' = roomPhase)
       => LET ev == Head(roomQ)
          IN  /\ ev.type = "join"
                 => connectedUsers' = connectedUsers + Cardinality(ev.state \ tally.seen)
              /\ ev.type = "leave"
                 => connectedUsers' = connectedUsers - Cardinality(ev.state \cap tally.seen)]_vars

\* ------------------------------------------------------------------ claims, cursors

\* C14: only P's leave deletes P's cursor entry, it deletes no other entry,
\* and once a tab has handled P's leave it shows no cursor for P until it
\* handles a join of P, whenever P's broadcasts arrive.
CursorGoneAfterLeave ==
    /\ [](\A t \in Tabs : \A u \in cenv.gone[t] : cursors[t][u] = NoCursor)
    /\ [][\A t \in Tabs : \A u \in CursorUsers :
             (cursors[t][u] # NoCursor /\ cursors'[t][u] = NoCursor)
             => /\ u \in cenv'.gone[t] /\ Len(curPresQ'[t]) < Len(curPresQ[t])
                /\ \A v \in CursorUsers \ {u} : cursors'[t][v] = cursors[t][v]]_vars

\* C17: no tab's cursor map holds an entry under the tab's own user id.
NoSelfCursor ==
    \A t \in Tabs : cursors[t][userId[t]] = NoCursor

\* a tab has handled a cursor broadcast that carries its own user id
OwnEchoHandled ==
    \E t \in cenv.echoed : \E w \in Tabs \ {t} : payloadRef[w] # NoCursor

\* the broadcasts of peer p waiting in queue q
SentBy(q, p) == Cardinality({i \in DOMAIN q : q[i].by = p})

\* C31: a peer that applies a notification, a broadcast or the fetched rows
\* issues no request and no broadcast by doing so; a request is issued only
\* together with a user edit of that peer, one per edit, a request is answered
\* once, and a broadcast is sent only as the continuation of one answered
\* request, so a peer never emits more writes or broadcasts than it made edits.
NoRebroadcast ==
    [][\A p \in DOMAIN store :
          /\ (NotifStep(p) \/ (\E i \in DOMAIN bcastQ[p] : BcastStep(p, i))
                 \/ (snap[p].st = "fetched" /\ snap'[p].st = "done"))
             => /\ writes' = writes /\ resp' = resp
                /\ \A q \in DOMAIN bcastQ : q # p => bcastQ'[q] = bcastQ[q]
          /\ Len(writes'[p]) > Len(writes[p])
             => /\ Len(writes'[p]) = Len(writes[p]) + 1
                /\ env'.edits = env.edits + 1 /\ store'[p] # store[p]
          /\ Len(resp'[p]) > Len(resp[p])
             => writes[p] # <<>> /\ writes'[p] = Tail(writes[p])
          /\ \A q \in DOMAIN bcastQ :
                 SentBy(bcastQ'[q], p) > SentBy(bcastQ[q], p)
                 => /\ SentBy(bcastQ'[q], p) = SentBy(bcastQ[q], p) + 1
                    /\ resp[p] # <<>> /\ resp'[p] = Tail(resp[p])]_vars

\* the loading page has applied its rows, an edit of the other peer has gone
\* through the table and the channel to it, and nothing is in flight
RemoteAppliedQuietly ==
    /\ snap[Loader].st = "done" /\ env.edits > 0
    /\ \A p \in DOMAIN writes : writes[p] = <<>> /\ resp[p] = <<>>
    /\ \A p \in DOMAIN notifQ : notifQ[p] = <<>> /\ bcastQ[p] = <<>>
    /\ \E i \in DOMAIN db :
           /\ db[i].by # Loader /\ db[i].by # "-"
           /\ store[Loader][i] = db[i].val /\ db[i].val # Absent

\* C32: when a page applies the rows it fetched, a record for which it has
\* handled a remote event since the fetch, and which it holds as the table now
\* has it while the fetched row differs from the table (the row is older), is
\* left as it is: not put back to the older row, not created again once deleted.
LoadKeepsNewer ==
    [][\A p \in DOMAIN snap :
          (snap[p].st = "fetched" /\ snap'[p].st = "done")
          => \A i \in snap[p].seen :
                 (store[p][i] = db[i].val /\ snap[p].rows[i] # db[i].val)
                 => store'[p][i] = store[p][i]]_vars

\* the session's store holds every record as the table has it
InSync == \A i \in DOMAIN db : store[Session][i] = db[i].val

\* C33: once the session has been subscribed with its store in step with the
\* table, then whenever a channel of the session is joined later, after any
\* disconnection and reconnect, the store comes to hold every record as the
\* table has it, unless the channel is lost again first.
RecoversAfterReconnect ==
    []((Subscribed(Session) /\ InSync)
       => [](Subscribed(Session) => <>(~Subscribed(Session) \/ InSync)))

\* C34: the status shown is "connected" exactly when the channel in
\* channelRef has reported SUBSCRIBED last, and the status callback of a channel
\* that has been replaced (its CLOSED after removal, while another channel is
\* the current one) changes neither the status shown nor a retry counter.
StatusTracksChannel ==
    /\ [](connectionStatus = "connected"
             <=> (channelRef # NoChannel /\ chans[channelRef].st = "joined"))
    /\ [][(Len(chans') < Len(chans) /\ channelRef # NoChannel /\ channelRef' # NoChannel)
          => connectionStatus' = connectionStatus /\ retryCount' = retryCount]_vars

\* C35: a channel is created only by the effect instance that is mounted now,
\* and a retry is scheduled only by a callback of that instance: after an
\* instance's cleanup (room exit, manual reconnect) none of its timers fires
\* and none of its callbacks schedules a retry.
NoRetryAfterTeardown ==
    [][/\ Len(chans') > Len(chans)
          => mounted' /\ chans'[Len(chans')].owner = retryTrigger'
       /\ BagCardinality(timers') > BagCardinality(timers)
          => /\ mounted
             /\ \A x \in DOMAIN timers' :
                    (x.latest /\ CopiesIn(x, timers') > CopiesIn(x, timers))
                    => x.inst = retryTrigger]_vars

\* C36: once a client's audio effect has been cleaned up and no step of its
\* initialisation is pending any more (microphone, subscription, presence
\* track), its audio channel is not subscribed, its microphone has no live
\* track and it holds no peer that is not destroyed.
TeardownComplete ==
    \A u \in DOMAIN up :
        (~up[u] /\ phase[u] \in {"none", "ready"})
        => /\ phase[u] = "none"
           /\ userStream[u].tracks # "live"
           /\ \A i \in DOMAIN peersRef[u] : peersRef[u][i].st = "destroyed"

\* C37: after a client's audio teardown its peer list is empty, and a join
\* handled for another user leaves the client with a peer for that user that
\* is not destroyed.
PeerListCleared ==
    /\ [](\A u \in DOMAIN up : (~up[u] /\ phase[u] = "none") => peersRef[u] = <<>>)
    /\ [][\A u \in DOMAIN presQ :
             (presQ[u] # <<>> /\ presQ'[u] = Tail(presQ[u]) /\ up' = up
                 /\ Head(presQ[u]).type = "join" /\ Head(presQ[u]).user # u)
             => \E i \in DOMAIN peersRef'[u] :
                    /\ peersRef'[u][i].peerId = Head(presQ[u]).user
                    /\ peersRef'[u][i].st # "destroyed"]_vars

\* C38: once the cursor effect of a tab has been cleaned up, its channel handle
\* is null and stays null, also when the presence-track call issued on
\* SUBSCRIBED returns after the cleanup; so a pointer dispatch that runs after
\* the cleanup finds no channel to send on.
NoHandleAfterTeardown ==
    \A t \in Tabs : CursorTornDown(t) => ChannelHandle(t) = "null"

\* ------------------------------------------------------------------ claims, chat lists
UniqueIds(list) == \A i, j \in DOMAIN list : list[i] = list[j] => i = j

\* C39: with INSERT notifications delivered at least once, neither the AI chat
\* list nor the team chat list ever holds two entries with the same message id.
ChatIdsUnique == UniqueIds(aiMessages) /\ UniqueIds(teamMessages)

====
